---- MODULE Spec2Model ----
(***************************************************************************)
(* A model of the dungeon-map generation library: the MapGrid data type    *)
(* (src/data/grid.rs), the cellular-automata engine (src/gen/cell_auto.rs)  *)
(* and the room generator with its connection pass (src/gen/room_gen.rs,   *)
(* src/gen/rooms.rs, src/util/geo.rs).                                     *)
(*                                                                         *)
(* Five families of specifications share the module:                       *)
(*   SpecGrid          constructors and mutators of one MapGrid            *)
(*   SpecCA            execute_on / execute_with_history on bounded inputs *)
(*   SpecGen, SpecCeil basic / tiered / tiered_heuristic room generation   *)
(*   SpecQuery         one call of a function of MapGrid on a given grid   *)
(*   SpecClass         one call of a function of GridClassification        *)
(* A family leaves the variables of the other families at their idle       *)
(* values.                                                                 *)
(***************************************************************************)
EXTENDS Integers, Sequences, FiniteSets, TLC

VARIABLES
    grid,      \* the MapGrid under construction / mutation (NoGrid: none yet)
    other,     \* a second MapGrid, argument of copy / sub_grid / integrate
    outcome,   \* how the last grid operation ended: "ok", "panic" or "err"
    fill,      \* the running random_fill loop: [active, target, fn, arg]
    ca,        \* arguments of the cellular-automata call
    res,       \* what the cellular-automata call returned
    gen,       \* the generator call: [fn, width, height]
    targets,   \* per-tier target room counts, in placement order
    pc,        \* position of the generator
    rooms,     \* the accepted rooms, in acceptance (later shuffled) order
    iters,     \* the tier loop's attempt counter (basic: the loop index)
    conn,      \* position inside connect_all_rooms
    drawn,     \* history: the in-bounds cells written by the connection pass
    query      \* the call made on the grid and what it returned: [op, ...]

vars == <<grid, other, outcome, fill, ca, res, gen, targets, pc, rooms, iters, conn, drawn, query>>
gridVars == <<grid, other, outcome, fill>>
caVars == <<ca, res>>
genVars == <<gen, targets, pc, rooms, iters, conn, drawn>>
queryVars == <<query>>

----------------------------------------------------------------------------
(* Small helpers. *)

Max(a, b) == IF a >= b THEN a ELSE b
Min(a, b) == IF a <= b THEN a ELSE b

\* Option<T> as a sequence of length 0 (None) or 1 (Some).
None == <<>>
Some(v) == <<v>>

RECURSIVE SumSeq(_)
SumSeq(s) == IF s = <<>> THEN 0 ELSE Head(s) + SumSeq(Tail(s))

----------------------------------------------------------------------------
(* TriState and Cell (src/util/tri.rs, src/data/cell.rs). *)

TriState == {"True", "False", "Invalid"}

\* impl From<bool> for TriState
TriFromBool(b) == IF b THEN "True" ELSE "False"

\* TriState::toggle
TriToggleAny(t) == CASE t = "True" -> "False" [] OTHER -> "True"
TriToggle(t) == CASE t = "True" -> "False" [] t = "False" -> "True" [] OTHER -> "Invalid"

\* impl From<TriState> for bool: True -> true, False -> false, Invalid panics.
TriIntoBoolPanics(t) == t = "Invalid"
TriIntoBool(t) == t = "True"

Cell_on == TriFromBool(TRUE)
Cell_off == TriFromBool(FALSE)
Cell_invalid == "Invalid"
Cell_is_on(c) == c = "True"
Cell_is_off(c) == c = "False"
Cell_is_invalid(c) == ~(c # "Invalid")

----------------------------------------------------------------------------
(* MapGrid (src/data/grid.rs).  cells is the Vec<Vec<Cell>>: a sequence of *)
(* rows, cell (x, y) at cells[y + 1][x + 1].                               *)

NoGrid == [name |-> None, width |-> 0, height |-> 0, cells |-> <<>>]

\* The result of an operation that can panic or fail.
Ok(g) == [ok |-> TRUE, val |-> g]
Panicked == [ok |-> FALSE, val |-> NoGrid]

MkRow(n, c) == [i \in 1..n |-> c]

\* The nested construction loops of new / empty / random: `height` rows of
\* `width` cells each, the cell at (x, y) given by F(x, y).
BuildCells(width, height, F(_, _)) ==
    [y \in 1..height |-> [x \in 1..width |-> F(x - 1, y - 1)]]

UniformGrid(width, height, c) ==
    LET F(x, y) == c
    IN  IF width < 3 \/ height < 3
        THEN Panicked
        ELSE Ok([name |-> None, width |-> width, height |-> height,
                 cells |-> BuildCells(width, height, F)])

MapGrid_new(width, height) == UniformGrid(width, height, Cell_invalid)
MapGrid_empty(width, height) == UniformGrid(width, height, Cell_off)

\* What Cell::random() (fastrand::bool) yields for the cell at (x, y): the
\* draws of one call are one of these patterns.
RandomPatterns == {"checker", "rows"}
RandomBit(pat, x, y) == IF pat = "checker" THEN (x + y) % 2 = 0 ELSE y % 2 = 1

MapGrid_random(width, height, pat) ==
    LET F(x, y) == TriFromBool(RandomBit(pat, x, y))
    IN  IF width < 3 \/ height < 3
        THEN Panicked
        ELSE Ok([name |-> None, width |-> width, height |-> height,
                 cells |-> BuildCells(width, height, F)])

rows(g) == g.height
cols(g) == g.width

InBounds(g, x, y) == ~(x >= g.width \/ y >= g.height)

\* MapGrid::cell: None when out of bounds.
cell(g, x, y) == IF x >= g.width \/ y >= g.height THEN None ELSE Some(g.cells[y + 1][x + 1])

\* MapGrid::cell_wrapped: wraps negative / overflowing coordinates.
WrapCoord(v, n) == v % n
cell_wrapped(g, x, y) == cell(g, WrapCoord(x, g.width), WrapCoord(y, g.height))

\* MapGrid::cell_mut: the cell that can be written, None when out of bounds.
cell_mut(g, x, y) == IF x >= g.width \/ y >= g.height THEN None ELSE Some(g.cells[y + 1][x + 1])

\* A set_cell that pulls an out-of-bounds position back to the last column / row.
set_cell_clamping(g, x, y, c) ==
    [g EXCEPT !.cells[Min(y, g.height - 1) + 1][Min(x, g.width - 1) + 1] = c]

\* MapGrid::set_cell: an out-of-bounds write is a logged no-op.
set_cell(g, x, y, c) ==
    IF x >= g.width \/ y >= g.height
    THEN g
    ELSE [g EXCEPT !.cells[y + 1][x + 1] = c]

set_cell_state(g, x, y, state) == set_cell(g, x, y, TriFromBool(state))
set_cell_invalid(g, x, y) == set_cell(g, x, y, Cell_invalid)

\* MapGrid::cell_mut + toggle.
toggle_cell(g, x, y) ==
    IF x >= g.width \/ y >= g.height
    THEN g
    ELSE [g EXCEPT !.cells[y + 1][x + 1] = TriToggle(@)]

\* A sequence of set_cell calls, applied in order.
RECURSIVE SetCells(_, _)
SetCells(g, writes) ==
    IF writes = <<>> THEN g
    ELSE SetCells(set_cell(g, Head(writes)[1], Head(writes)[2], Head(writes)[3]), Tail(writes))

\* iter / iter_pos: the cells in row-major order of the Vec<Vec<Cell>>.
RECURSIVE FlattenRows(_)
FlattenRows(rs) == IF rs = <<>> THEN <<>> ELSE Head(rs) \o FlattenRows(Tail(rs))
iter(g) == FlattenRows(g.cells)

on_cells_count(g) == Len(SelectSeq(iter(g), Cell_is_on))

\* `for ((x, y), &cell) in src.iter_pos() { dst.set_cell(x + ox, y + oy, cell) }`:
\* every cell of src is written at its offset position, out-of-bounds writes
\* are dropped by set_cell.  (CopyCellsAtOrigin is the loop without the offset.)
CopyCellsAtOrigin(dst, src, ox, oy) ==
    [dst EXCEPT !.cells =
        [j \in 1..Len(dst.cells) |->
            [i \in 1..Len(dst.cells[j]) |->
                IF j \in 1..Len(src.cells) /\ i \in 1..Len(src.cells[j])
                THEN src.cells[j][i]
                ELSE dst.cells[j][i]]]]

CopyCellsInto(dst, src, ox, oy) ==
    [dst EXCEPT !.cells =
        [j \in 1..Len(dst.cells) |->
            [i \in 1..Len(dst.cells[j]) |->
                IF /\ i - 1 < dst.width /\ j - 1 < dst.height
                   /\ j - oy \in 1..Len(src.cells)
                   /\ i - ox \in 1..Len(src.cells[j - oy])
                THEN src.cells[j - oy][i - ox]
                ELSE dst.cells[j][i]]]]

\* MapGrid::create_copy
create_copy(src) ==
    LET e == MapGrid_empty(src.width, src.height)
        named == IF src.name # None
                 THEN [e.val EXCEPT !.name = Some(Head(src.name) \o <<" (Copy)">>)]
                 ELSE e.val
    IN  IF ~e.ok THEN Panicked ELSE Ok(CopyCellsInto(named, src, 0, 0))

\* `for cell in grid.iter_mut() { cell.toggle() }`
ToggleAll(g) ==
    [g EXCEPT !.cells = [j \in 1..Len(g.cells) |-> [i \in 1..Len(g.cells[j]) |-> TriToggle(g.cells[j][i])]]]

\* MapGrid::reverse: a copy of the given grid with every cell toggled.
reverse(src) ==
    LET c == create_copy(src)
    IN  IF ~c.ok THEN Panicked ELSE Ok(ToggleAll(c.val))

\* MapGrid::reverse_in_place
reverse_in_place(g) == ToggleAll(g)

\* GridSquare (euclid Box2D): min inclusive, max exclusive.
square(x, y, x_size, y_size) == [min |-> <<x, y>>, max |-> <<x + x_size, y + y_size>>]
SqWidth(s) == s.max[1] - s.min[1]
SqHeight(s) == s.max[2] - s.min[2]

\* MapGrid::sub_grid: a new grid of the section's size, filled through
\* cell_wrapped from the original.
sub_grid(original, section) ==
    LET n == MapGrid_new(SqWidth(section), SqHeight(section))
        named == IF original.name # None
                 THEN [n.val EXCEPT !.name = Some(<<"SubGrid of ">> \o Head(original.name))]
                 ELSE n.val
        F(x, y) == Head(cell_wrapped(original, section.min[1] + x, section.min[2] + y))
    IN  IF ~n.ok THEN Panicked
        ELSE Ok([named EXCEPT !.cells = BuildCells(named.width, named.height, F)])

\* MapGrid::create_subgrid: panics on a section below 3x3 or beyond the grid.
create_subgrid(g, section) ==
    IF SqHeight(section) < 3 \/ SqWidth(section) < 3 THEN Panicked
    ELSE IF section.max[1] > g.width \/ section.max[2] > g.height THEN Panicked
    ELSE sub_grid(g, section)

\* Vec::resize
VecResize(v, n, fillv) ==
    IF n <= Len(v) THEN SubSeq(v, 1, n) ELSE v \o [i \in 1..(n - Len(v)) |-> fillv]

\* A resize_rows_with that forgets the minimum of 3.
resize_rows_unclamped(g, new_row_size, cell_value) ==
    IF new_row_size = cols(g) THEN g
    ELSE [g EXCEPT !.cells = [j \in 1..Len(g.cells) |-> VecResize(g.cells[j], new_row_size, cell_value)],
                   !.width = new_row_size]

\* MapGrid::resize_rows_with: the length of every row, i.e. the width.
resize_rows_with(g, new_row_size, cell_value) ==
    LET safe_size == IF new_row_size < 3 THEN 3 ELSE new_row_size
    IN  IF safe_size = cols(g) THEN g
        ELSE [g EXCEPT !.cells = [j \in 1..Len(g.cells) |-> VecResize(g.cells[j], safe_size, cell_value)],
                       !.width = safe_size]

\* MapGrid::resize_cols_with: the number of rows, i.e. the height.
resize_cols_with(g, new_column_size, cell_value) ==
    LET safe_size == IF new_column_size < 3 THEN 3 ELSE new_column_size
    IN  IF safe_size = rows(g) THEN g
        ELSE [g EXCEPT !.cells = VecResize(g.cells, safe_size, MkRow(cols(g), cell_value)),
                       !.height = safe_size]

resize_rows(g, n) == resize_rows_with(g, n, Cell_invalid)
resize_cols(g, n) == resize_cols_with(g, n, Cell_invalid)

\* A resize that pads with Off cells.
resize_with_off(g, width, height) ==
    LET g1 == IF g.width # width THEN resize_rows_with(g, width, Cell_off) ELSE g
        g2 == IF g1.height # height THEN resize_cols_with(g1, height, Cell_off) ELSE g1
    IN  IF g2.width # Max(width, 3) \/ g2.height # Max(height, 3) THEN Panicked ELSE Ok(g2)

\* MapGrid::resize: rows then columns, then the size check (a panic).
resize(g, width, height) ==
    LET g1 == IF g.width # width THEN resize_rows(g, width) ELSE g
        g2 == IF g1.height # height THEN resize_cols(g1, height) ELSE g1
    IN  IF g2.width # Max(width, 3) \/ g2.height # Max(height, 3) THEN Panicked ELSE Ok(g2)

\* MapGrid::resize_with, as written: the width test guards a resize of the
\* rows to `height`, the height test a resize of the columns to `width`.
resize_with(g, width, height, cell_value) ==
    LET g1 == IF g.width # width THEN resize_rows_with(g, height, cell_value) ELSE g
    IN  IF g1.height # height THEN resize_cols_with(g1, width, cell_value) ELSE g1

\* MapGrid::integrate
integrate(first, oth, ox, oy) ==
    LET new_width == Max(first.width, ox + oth.width)
        new_height == Max(first.height, oy + oth.height)
        r == MapGrid_new(new_width, new_height)
    IN  IF ~r.ok THEN Panicked
        ELSE Ok(CopyCellsInto(CopyCellsInto(r.val, first, 0, 0), oth, ox, oy))

\* MapGrid::integrate_in_place
integrate_in_place(g, oth, ox, oy) ==
    LET grown == IF oth.width + ox > g.width \/ oth.height + oy > g.height
                 THEN resize(g, Max(oth.width + ox, g.width), Max(oth.height + oy, g.height))
                 ELSE Ok(g)
    IN  IF ~grown.ok THEN Panicked ELSE Ok(CopyCellsInto(grown.val, oth, ox, oy))

----------------------------------------------------------------------------
(* MapGrid::parse_string.  A string is a sequence of one-character strings, *)
(* NL the line feed.                                                        *)

NL == "\n"
Digits == <<"0", "1", "2", "3", "4", "5", "6", "7", "8", "9">>
IsNumeric(c) == \E i \in 1..Len(Digits) : Digits[i] = c
DigitVal(c) == (CHOOSE i \in 1..Len(Digits) : Digits[i] = c) - 1
IsAlphabetic(c) == c \in {"S", "G", "E", "m", "a", "p", "x"}

\* str::split on a separator character: always at least one piece.
RECURSIVE SplitOn(_, _)
SplitOn(s, sep) ==
    IF \A i \in 1..Len(s) : s[i] # sep
    THEN <<s>>
    ELSE LET k == CHOOSE i \in 1..Len(s) : s[i] = sep /\ \A j \in 1..(i - 1) : s[j] # sep
         IN  <<SubSeq(s, 1, k - 1)>> \o SplitOn(SubSeq(s, k + 1, Len(s)), sep)

\* str::split_ascii_whitespace: the non-empty pieces between blanks.
IsNonEmpty(piece) == piece # <<>>
split_ascii_whitespace(s) == SelectSeq(SplitOn(s, " "), IsNonEmpty)

\* str::parse::<usize>: None unless every character is a digit.
RECURSIVE DigitsValue(_, _)
DigitsValue(s, acc) == IF s = <<>> THEN acc ELSE DigitsValue(Tail(s), acc * 10 + DigitVal(Head(s)))
parse_usize(s) ==
    IF s # <<>> /\ \A i \in 1..Len(s) : IsNumeric(s[i]) THEN Some(DigitsValue(s, 0)) ELSE None

StartsWithName(line, on, off) ==
    line # <<>> /\ line[1] # on /\ line[1] # off /\ IsAlphabetic(line[1])
StartsWithDims(line, on, off) ==
    line # <<>> /\ line[1] # on /\ line[1] # off /\ IsNumeric(line[1])

\* String::len is the length in bytes of the UTF-8 encoding: 1 for an ASCII
\* character, 3 for the block character.
Block == "█"
Utf8Len(ch) == IF ch = Block THEN 3 ELSE 1
StrLen(line) == SumSeq([i \in 1..Len(line) |-> Utf8Len(line[i])])

RECURSIVE MaxLineLen(_)
MaxLineLen(lines) == IF lines = <<>> THEN 0 ELSE Max(StrLen(Head(lines)), MaxLineLen(Tail(lines)))

\* What the character loop stores for one character; "error" marks the
\* characters that push an error and set the cell invalid.
CharIsErrorStrict(ch, on, off) == ch # on /\ ch # off
CharIsError(ch, on, off) == ch # on /\ ch # off /\ ch # "S" /\ ch # "G"
CharCell(ch, on, off) ==
    IF ch = on THEN TriFromBool(TRUE)
    ELSE IF ch = off THEN TriFromBool(FALSE)
    ELSE IF ch = "S" \/ ch = "G" THEN TriFromBool(FALSE)
    ELSE Cell_invalid

\* The errors of the character loop, in the order the loop pushes them.
RECURSIVE LineErrors(_, _, _, _, _)
LineErrors(line, x, y, on, off) ==
    IF x >= Len(line) THEN <<>>
    ELSE (IF CharIsError(line[x + 1], on, off)
          THEN <<<<"Invalid character", line[x + 1], x, y>>>>
          ELSE <<>>) \o LineErrors(line, x + 1, y, on, off)
RECURSIVE CharErrors(_, _, _, _)
CharErrors(lines, y, on, off) ==
    IF y >= Len(lines) THEN <<>>
    ELSE LineErrors(lines[y + 1], 0, y, on, off) \o CharErrors(lines, y + 1, on, off)

\* A character loop that leaves Off where no character is written.
ParsedCellsOrOff(g, lines, on, off) ==
    [g EXCEPT !.cells =
        [j \in 1..g.height |->
            [i \in 1..g.width |->
                IF j <= Len(lines) /\ i <= Len(lines[j])
                THEN CharCell(lines[j][i], on, off)
                ELSE Cell_off]]]

\* The grid after the character loop: every character of every line is
\* written at (x, y) through set_cell, which drops out-of-bounds writes;
\* the cells no character reaches keep the Invalid of MapGrid::new.
ParsedCells(g, lines, on, off) ==
    [g EXCEPT !.cells =
        [j \in 1..g.height |->
            [i \in 1..g.width |->
                IF j <= Len(lines) /\ i <= Len(lines[j])
                THEN CharCell(lines[j][i], on, off)
                ELSE g.cells[j][i]]]]

ParseErr(errors) == [ok |-> FALSE, panic |-> FALSE, val |-> NoGrid, errors |-> errors]
ParsePanic == [ok |-> FALSE, panic |-> TRUE, val |-> NoGrid, errors |-> <<>>]

parse_string(input, on, off) ==
    IF input = <<>> THEN ParseErr(<<<<"Empty input">>>>)
    ELSE
    LET split0 == SplitOn(input, NL)
        hasName == StartsWithName(split0[1], on, off)
        name == IF hasName THEN Some(split0[1]) ELSE None
        split1 == IF hasName THEN Tail(split0) ELSE split0
    IN  IF split1 = <<>> THEN ParsePanic       \* split[0] on an empty Vec
        ELSE
        LET hasDims == StartsWithDims(split1[1], on, off)
            halves == IF hasDims THEN split_ascii_whitespace(split1[1]) ELSE <<>>
            split == IF hasDims THEN Tail(split1) ELSE split1
            w0 == IF Len(halves) = 2 /\ parse_usize(halves[1]) # None
                  THEN Head(parse_usize(halves[1])) ELSE 0
            h0 == IF Len(halves) = 2 /\ parse_usize(halves[2]) # None
                  THEN Head(parse_usize(halves[2])) ELSE 0
            width == IF w0 = 0 THEN MaxLineLen(split) ELSE w0
            height == IF h0 = 0 THEN Len(split) ELSE h0
            fatal == (IF width < 3 THEN <<<<"Width must be at least 3">>>> ELSE <<>>)
                     \o (IF height < 3 THEN <<<<"Height must be at least 3">>>> ELSE <<>>)
        IN  IF fatal # <<>> THEN ParseErr(fatal)
            ELSE
            LET g0 == [MapGrid_new(width, height).val EXCEPT !.name = name]
                g == ParsedCells(g0, split, on, off)
                errors == CharErrors(split, 0, on, off)
            IN  IF errors = <<>>
                THEN [ok |-> TRUE, panic |-> FALSE, val |-> g, errors |-> <<>>]
                ELSE ParseErr(errors)

\* MapGrid::to_strings_with: one string per row; Invalid cells are shown by
\* the first of 'X', '@', '!' that is neither `on` nor `off`.
INVALID_MARKERS == <<"X", "@", "!">>
InvalidMarker(on, off) ==
    IF INVALID_MARKERS[1] # on /\ INVALID_MARKERS[1] # off THEN INVALID_MARKERS[1]
    ELSE IF INVALID_MARKERS[2] # on /\ INVALID_MARKERS[2] # off THEN INVALID_MARKERS[2]
    ELSE INVALID_MARKERS[3]
to_strings_with(g, on, off) ==
    [j \in 1..Len(g.cells) |->
        [i \in 1..Len(g.cells[j]) |->
            IF Cell_is_on(g.cells[j][i]) THEN on
            ELSE IF Cell_is_off(g.cells[j][i]) THEN off
            ELSE InvalidMarker(on, off)]]

\* [String]::join
RECURSIVE Join(_, _)
Join(strings, div) ==
    IF strings = <<>> THEN <<>>
    ELSE IF Len(strings) = 1 THEN Head(strings)
    ELSE Head(strings) \o <<div>> \o Join(Tail(strings), div)

\* MapGrid::to_string_with
to_string_with(g, on, off, div) == Join(to_strings_with(g, on, off), div)

\* impl PartialEq for MapGrid: size, name, then the cells pairwise.
MapGrid_eq(a, b) ==
    IF a.width # b.width \/ a.height # b.height THEN FALSE
    ELSE IF a.name # b.name THEN FALSE
    ELSE \A j \in 1..Min(Len(a.cells), Len(b.cells)) :
            \A i \in 1..Min(Len(a.cells[j]), Len(b.cells[j])) : a.cells[j][i] = b.cells[j][i]

----------------------------------------------------------------------------
(* Neighbour queries of MapGrid (src/data/grid.rs). *)

\* MapGrid::neighbor_positions: edges truncated.
neighbor_positions(g, x, y) ==
    LET xs == IF x = 0 THEN <<0, 1>>
              ELSE IF x = g.width - 1 THEN <<g.width - 2, g.width - 1>>
              ELSE <<x - 1, x, x + 1>>
        ys == IF y = 0 THEN <<0, 1>>
              ELSE IF y = g.height - 1 THEN <<g.height - 2, g.height - 1>>
              ELSE <<y - 1, y, y + 1>>
        all == [k \in 1..(Len(xs) * Len(ys)) |->
                   <<xs[((k - 1) \div Len(ys)) + 1], ys[((k - 1) % Len(ys)) + 1]>>]
        NotSelf(p) == p # <<x, y>>
    IN  SelectSeq(all, NotSelf)

\* A wrapping variant that truncates at the edges instead.
neighbor_positions_truncating(g, x, y) == neighbor_positions(g, x, y)

\* MapGrid::neighbor_positions_wrapping: edges wrapped, ys outer, xs inner.
neighbor_positions_wrapping(g, x, y) ==
    LET xs == IF x = 0 THEN <<g.width - 1, 0, 1>>
              ELSE <<(x - 1) % g.width, x % g.width, (x + 1) % g.width>>
        ys == IF y = 0 THEN <<g.height - 1, 0, 1>>
              ELSE <<(y - 1) % g.height, y % g.height, (y + 1) % g.height>>
        all == [k \in 1..9 |-> <<xs[((k - 1) % 3) + 1], ys[((k - 1) \div 3) + 1]>>]
        NotSelf(p) == ~(p[1] = x /\ p[2] = y)
    IN  SelectSeq(all, NotSelf)

\* MapGrid::neighbors_with_state
neighbors_with_state(g, x, y, state, wrap_edges) ==
    LET range == IF wrap_edges THEN neighbor_positions_wrapping(g, x, y)
                 ELSE neighbor_positions(g, x, y)
        Matches(p) == cell(g, p[1], p[2]) # None /\ Head(cell(g, p[1], p[2])) = TriFromBool(state)
    IN  SelectSeq(range, Matches)

\* MapGrid::active_neighbor_count
active_neighbor_count(g, x, y, wrapped) == Len(neighbors_with_state(g, x, y, TRUE, wrapped))

\* x.saturating_sub(n)
saturating_sub(x, n) == IF x >= n THEN x - n ELSE 0

\* MapGrid::active_neighbors_n: [ok, val]; ok = FALSE is a panic (of
\* create_subgrid, or of the usize subtraction).
active_neighbors_n(g, x, y, n) ==
    IF n = 0 THEN [ok |-> TRUE, val |-> 0]
    ELSE IF n = 1 THEN [ok |-> TRUE, val |-> active_neighbor_count(g, x, y, TRUE)]
    ELSE IF (n * 2) + 1 > g.width \/ (n * 2) + 1 > g.height THEN [ok |-> TRUE, val |-> 0]
    ELSE LET sub == create_subgrid(g, square(saturating_sub(x, n), saturating_sub(y, n),
                                             x + n + 1, y + n + 1))
             own == IF Cell_is_on(Head(cell(g, x, y))) THEN 1 ELSE 0
         IN  IF ~sub.ok THEN [ok |-> FALSE, val |-> 0]
             ELSE IF on_cells_count(sub.val) < own THEN [ok |-> FALSE, val |-> 0]
             ELSE [ok |-> TRUE, val |-> on_cells_count(sub.val) - own]

----------------------------------------------------------------------------
(* The cellular-automata engine (src/gen/cell_auto.rs). *)

on_min_default == 4
off_min_default == 5

\* Algorithm: First carries its two thresholds; Flex and Flex2 carry a
\* predicate, here the ones the runner binary passes.
Algorithm_first(on_min, off_min) == [kind |-> "First", on_min |-> on_min, off_min |-> off_min]
Algorithm_default_first == Algorithm_first(on_min_default, off_min_default)
Algorithm_flex == [kind |-> "Flex", on_min |-> 0, off_min |-> 0]
Algorithm_flex2 == [kind |-> "Flex2", on_min |-> 0, off_min |-> 0]

\* The threshold closure with its two minimums exchanged.
SwappedPredicate(on_minimum, off_minimum, n, s) == IF s THEN n >= off_minimum ELSE n >= on_minimum
\* The closure of CellularAutomata::first.
FirstPredicate(on_minimum, off_minimum, n, s) == IF s THEN n >= on_minimum ELSE n >= off_minimum
\* flex(|_, n, s| { let t = n + if s {1} else {0}; t >= 4 && t != 6 })
FlexPredicate(n, s) == LET t == n + (IF s THEN 1 ELSE 0) IN t >= 4 /\ t # 6
\* flex2(|_, n, n2, s| { let t = n + if s {1} else {0}; t >= 5 || n2 < 1 })
Flex2Predicate(n, n2, s) == LET t == n + (IF s THEN 1 ELSE 0) IN t >= 5 \/ n2 < 1

Predicate(alg, n, n2, s) ==
    CASE alg.kind = "First" -> FirstPredicate(alg.on_min, alg.off_min, n, s)
      [] alg.kind = "Flex" -> FlexPredicate(n, s)
      [] OTHER -> Flex2Predicate(n, n2, s)

\* A pass that reads the grid it is writing.
ReadWritten(g, temp) == temp
\* The grid whose cells and neighbour counts a pass reads: `grid`, the
\* previous generation, while the writes go to `temp`.
ReadFrom(g, temp) == g

\* The nested loop `for x in 0..cols { for y in 0..rows {..} }`.
CodeOrder(g) == [k \in 1..(cols(g) * rows(g)) |-> <<(k - 1) \div rows(g), (k - 1) % rows(g)>>]

\* The body of the cell loop over the positions `order`: [ok, val], ok =
\* FALSE when the bool conversion or active_neighbors_n panicked.
RECURSIVE PassOver(_, _, _, _)
PassOver(alg, g, temp, order) ==
    IF order = <<>> THEN Ok(temp)
    ELSE LET x == Head(order)[1]
             y == Head(order)[2]
             src == ReadFrom(g, temp)
             c == cell(src, x, y)
         IN  IF c = None THEN PassOver(alg, g, temp, Tail(order))
             ELSE IF TriIntoBoolPanics(Head(c)) THEN Panicked
             ELSE LET cell_state == TriIntoBool(Head(c))
                      n == active_neighbor_count(src, x, y, TRUE)
                      n2 == IF alg.kind = "Flex2" THEN active_neighbors_n(src, x, y, 2)
                            ELSE [ok |-> TRUE, val |-> 0]
                  IN  IF ~n2.ok THEN Panicked
                      ELSE PassOver(alg, g,
                                    set_cell_state(temp, x, y, Predicate(alg, n, n2.val, cell_state)),
                                    Tail(order))

\* One iteration of `for p in 0..passes`.
OnePass(alg, g) == PassOver(alg, g, create_copy(g).val, CodeOrder(g))

CAResult(status, g, history) == [status |-> status, grid |-> g, history |-> history]

RECURSIVE PassLoop(_, _, _, _, _)
PassLoop(alg, g, history, left, track) ==
    IF left = 0 THEN CAResult("ok", g, history)
    ELSE LET t == OnePass(alg, g)
         IN  IF ~t.ok THEN CAResult("panic", NoGrid, <<>>)
             ELSE PassLoop(alg, t.val,
                           IF track THEN Append(history, create_copy(t.val).val) ELSE history,
                           left - 1, track)

\* The body shared by flexible and flexible2: zero passes return a copy
\* and an empty history; otherwise the copy, the history seeded with a copy
\* of it when tracking, and the pass loop.
FlexibleBody(original, passes, track_changes, alg) ==
    IF passes < 1 THEN CAResult("ok", create_copy(original).val, <<>>)
    ELSE LET g == create_copy(original).val
             history == IF track_changes THEN <<create_copy(g).val>> ELSE <<>>
         IN  PassLoop(alg, g, history, passes, track_changes)

\* CellularAutomata::flexible, ::flexible2 (which adds the n2 lookup) and
\* ::first (flexible with the threshold closure).
flexible(original, passes, track_changes, alg) == FlexibleBody(original, passes, track_changes, alg)
flexible2(original, passes, track_changes, alg) == FlexibleBody(original, passes, track_changes, alg)
first(g, passes, track_changes, on_minimum, off_minimum) ==
    flexible(g, passes, track_changes, Algorithm_first(on_minimum, off_minimum))

Dispatch(original, passes, track, alg) ==
    CASE alg.kind = "First" -> first(original, passes, track, alg.on_min, alg.off_min)
      [] alg.kind = "Flex" -> flexible(original, passes, track, alg)
      [] OTHER -> flexible2(original, passes, track, alg)

\* execute_on keeps element .0 of the pair, execute_with_history both.
DropHistory(r) == [r EXCEPT !.history = <<>>]
execute_on(original, passes, alg_args) == DropHistory(Dispatch(original, passes, FALSE, alg_args))
execute_with_history(original, passes, alg_args) == Dispatch(original, passes, TRUE, alg_args)

----------------------------------------------------------------------------
(* Rooms (src/gen/rooms.rs) and curves (src/util/geo.rs). *)

\* Room::new: the square from the upper left corner and the size.  The
\* field `tier` is a history annotation: the tier that accepted the room.
Room_new(x, y, w, h, tier) ==
    [min |-> square(x, y, w, h).min, max |-> square(x, y, w, h).max, tier |-> tier]

\* Box2D::intersects, through Room::check_intersects / Room::intersects.
check_intersects(a, b) ==
    /\ a.min[1] < b.max[1] /\ a.max[1] > b.min[1]
    /\ a.min[2] < b.max[2] /\ a.max[2] > b.min[2]
intersects(room, oth) == check_intersects(room, oth)

\* A buffered test that forgets the buffer.
intersects_without_buffer(room, oth, buffer) == check_intersects(room, oth)

\* Room::intersects_with_buffer: max grows by the buffer, min shrinks by it
\* only where min > buffer.
intersects_with_buffer(room, oth, buffer) ==
    LET grown == [min |-> <<room.min[1] - (IF room.min[1] > buffer THEN buffer ELSE 0),
                            room.min[2] - (IF room.min[2] > buffer THEN buffer ELSE 0)>>,
                  max |-> <<room.max[1] + buffer, room.max[2] + buffer>>]
    IN  check_intersects(grown, oth)

\* Box2D::center on usize coordinates.
center(room) == <<(room.min[1] + room.max[1]) \div 2, (room.min[2] + room.max[2]) \div 2>>

\* Box2D::x_range / y_range, as the set of cells of the room.
RoomCells(room) == (room.min[1]..(room.max[1] - 1)) \X (room.min[2]..(room.max[2] - 1))

\* Room::get_edges
get_edges(room) ==
    {c \in RoomCells(room) :
        \/ c[1] = room.min[1] \/ c[1] = room.max[1] - 1
        \/ c[2] = room.min[2] \/ c[2] = room.max[2] - 1}

nsteps == 1000

\* One coordinate of the quadratic Bezier through p0, p1, p2 at t = k / nsteps,
\* rounded to the nearest integer (f64::round).
BezierCoord(p0, p1, p2, k) ==
    LET num == (nsteps - k) * (nsteps - k) * p0 + 2 * k * (nsteps - k) * p1 + k * k * p2
    IN  (2 * num + nsteps * nsteps) \div (2 * nsteps * nsteps)

\* get_curve_between: the control point is (first.x, second.y) or
\* (second.x, first.y) by a coin; the points for t = 0 .. (nsteps - 1) / nsteps,
\* sorted and deduplicated, i.e. the set of points.
get_curve_between(fst, snd, coin) ==
    LET mid == IF coin THEN <<fst[1], snd[2]>> ELSE <<snd[1], fst[2]>>
    IN  {<<BezierCoord(fst[1], mid[1], snd[1], k), BezierCoord(fst[2], mid[2], snd[2], k)>> :
            k \in 0..(nsteps - 1)}

----------------------------------------------------------------------------
(* The room generator (src/gen/room_gen.rs). *)

\* `for pos in positions { grid.set_cell_state(pos.0, pos.1, state) }`:
\* out-of-bounds positions are dropped by set_cell.
SetStates(g, positions, state) ==
    [g EXCEPT !.cells =
        [j \in 1..Len(g.cells) |->
            [i \in 1..Len(g.cells[j]) |->
                IF <<i - 1, j - 1>> \in positions /\ i - 1 < g.width /\ j - 1 < g.height
                THEN TriFromBool(state)
                ELSE g.cells[j][i]]]]

fill_room_edges_only(room, g) == SetStates(g, get_edges(room), TRUE)
fill_room_on_grid(room, g) == SetStates(g, RoomCells(room), TRUE)
outline_room_on_grid(room, g) == SetStates(g, get_edges(room), TRUE)

RECURSIVE FillRooms(_, _)
FillRooms(rs, g) == IF rs = <<>> THEN g ELSE FillRooms(Tail(rs), fill_room_on_grid(Head(rs), g))
RECURSIVE OutlineRooms(_, _)
OutlineRooms(rs, g) == IF rs = <<>> THEN g ELSE OutlineRooms(Tail(rs), outline_room_on_grid(Head(rs), g))

\* The cells horizontal_path / vertical_path / curved_path write.
HorizontalCells(fst, snd, y) == {<<col, y>> : col \in Min(fst, snd)..Max(fst, snd)}
VerticalCells(fst, snd, x) == {<<x, row>> : row \in Min(fst, snd)..Max(fst, snd)}

\* Paths that carve Off instead of On.
horizontal_path_off(g, fst, snd, y) == SetStates(g, HorizontalCells(fst, snd, y), FALSE)

horizontal_path(g, fst, snd, y) == SetStates(g, HorizontalCells(fst, snd, y), TRUE)
vertical_path(g, fst, snd, x) == SetStates(g, VerticalCells(fst, snd, x), TRUE)
curved_path(g, curve) == SetStates(g, curve, TRUE)

\* connect_rooms takes its start from the centre of `first`.
SecondCentre(fst, snd) == center(snd)
FirstCentre(fst, snd) == center(fst)

RoomBuffer == 3
IterCeiling == 10000
max_rooms == 100

\* Inclusive ranges; empty when hi < lo.
Rng(lo, hi) == [lo |-> lo, hi |-> hi]
InRng(v, r) == r.lo <= v /\ v <= r.hi
RngEmpty(r) == r.hi < r.lo
Ave(r) == (((r.lo + r.hi) * (r.hi - r.lo + 1)) \div 2) \div (r.hi - r.lo + 1)

\* The tiers in placement order.
Tiers(fn) == IF fn = "tiered" THEN <<"Big", "Medium", "Small">> ELSE <<"Huge", "Big", "Medium", "Small">>

\* size_start / size_end of a tier along a dimension d (tiered, get_room_sizes).
SizeStart(tier, d) ==
    CASE tier = "Small" -> 5
      [] tier = "Medium" -> Max(d \div 9, 5)
      [] tier = "Big" -> Max(d \div 7, 5)
      [] OTHER -> Max(d \div 5, 8)
SizeEnd(tier, d) ==
    CASE tier = "Small" -> Max(d \div 7, 6)
      [] tier = "Medium" -> Max(d \div 5, 7)
      [] tier = "Big" -> Max(d \div 3, 8)
      [] OTHER -> Max(d \div 2, 15)

\* size_start..=size_end (tiered) and size_start..size_end + 1 (get_room_sizes).
SizeRange(tier, d) == Rng(SizeStart(tier, d), SizeEnd(tier, d))
\* 0..=d - size_start (tiered) and 0..d - size_start + 1 (get_room_sizes).
PosRange(tier, d) == Rng(0, d - SizeStart(tier, d))
\* d - size_start underflows.
PosUnderflow(tier, d) == d < SizeStart(tier, d)

\* A max that rounds every fraction up.
TierMaxCeiling(tier, width, height) ==
    LET cells == Ave(SizeRange(tier, width)) * Ave(SizeRange(tier, height))
    IN  (3 * width * height + 20 * cells - 1) \div (20 * cells)
\* tiered_heuristic: max = round((map cells / average room cells) * 0.15),
\* the count range is (max / 2)..max.  The quotient is rounded exactly here;
\* the f64 product falls just below some ties of 3.5 and more (28x30,
\* Medium), none of them at the sizes of the runs and none at 0.5.
TierMax(tier, width, height) ==
    LET cells == Ave(SizeRange(tier, width)) * Ave(SizeRange(tier, height))
    IN  (3 * width * height + 10 * cells) \div (20 * cells)
CountRange(tier, width, height) ==
    Rng(TierMax(tier, width, height) \div 2, TierMax(tier, width, height) - 1)

\* tiered: fastrand::usize(2..=4), (3..=6), (4..=10).
TieredTargetRange(tier) ==
    CASE tier = "Big" -> Rng(2, 4) [] tier = "Medium" -> Rng(3, 6) [] OTHER -> Rng(4, 10)

TargetRange(fn, tier, width, height) ==
    IF fn = "tiered" THEN TieredTargetRange(tier) ELSE CountRange(tier, width, height)

\* The drawn targets are the two ends of the range.
TargetDraws(r) == {r.lo, r.hi}

\* The bounds test of a tier: >= in the Huge and Big loops, > in the others.
OutOfBoundsXOnly(tier, x, y, w, h, width, height) ==
    IF tier \in {"Huge", "Big"} THEN x + w >= width ELSE x + w > width
OutOfBounds(tier, x, y, w, h, width, height) ==
    IF tier \in {"Huge", "Big"}
    THEN x + w >= width \/ y + h >= height
    ELSE x + w > width \/ y + h > height
TooSmall(x, y, w, h) == x + w < 3 \/ y + h < 3

\* The collision loop: with a buffer of 3 in tiered, plain in the others.
Collides(fn, room, rs) ==
    \E k \in 1..Len(rs) :
        IF fn = "tiered" THEN intersects_with_buffer(room, rs[k], RoomBuffer)
        ELSE intersects(room, rs[k])

\* rooms.len() < the sum of the targets up to tier t.
Cum(tg, t) == SumSeq(SubSeq(tg, 1, t))
\* The first loop from tier t on whose condition holds with n rooms, or
\* Len(tg) + 1 when control falls through all of them.
RECURSIVE Advance(_, _, _)
Advance(t, n, tg) ==
    IF t > Len(tg) THEN t
    ELSE IF n < Cum(tg, t) THEN t
    ELSE Advance(t + 1, n, tg)

\* fastrand::shuffle: the orders the model draws.
ShuffleKinds == {"keep", "reverse", "rotate"}
Shuffle(rs, kind) ==
    CASE kind = "keep" -> rs
      [] kind = "reverse" -> [k \in 1..Len(rs) |-> rs[Len(rs) + 1 - k]]
      [] OTHER -> [k \in 1..Len(rs) |-> rs[(k % Len(rs)) + 1]]

----------------------------------------------------------------------------
(* SpecGrid: one MapGrid, built by a constructor and changed by mutators.   *)

MaxDim == 4
ReqDims == 2..MaxDim                 \* requested widths / heights, 2 is too small
ResizeSamples == {2, 3, 4}           \* sizes handed to the resize calls
CellValues == {Cell_on, Cell_off, Cell_invalid}
FillValues == {Cell_on}                 \* fill cells handed to the resize_*_with calls
PosSamples == {<<1, 1>>, <<3, 3>>}
OffsetSamples == {<<0, 0>>, <<1, 2>>}
FillDims == {<<3, 3>>, <<2, 3>>}     \* sizes handed to the random_fill constructors
PercentSamples == {0, 12, 100, 150}  \* fill_percent, in hundredths
FillNumbers == {0, 2, 10}
SectionSamples == {square(0, 0, 3, 3), square(1, 1, 3, 3), square(0, 0, 2, 3)}

ParseInputs ==
    { <<>>,
      <<"#", "#", "#", NL, ".", ".", ".", NL, "#", ".", "#">>,
      <<"#", "#", NL, "#", "#">>,
      <<"#", "S", "#", NL, ".", "G", ".", NL, "#", "?", "#">>,
      <<"m", "a", "p", NL, "#", "#", "#", NL, ".", ".", ".", NL, "#", "#", "#">>,
      <<"4", " ", "3", NL, "#", "#", "#", NL, ".", ".", ".", ".", NL, "#">>,
      <<"m", "a", "p">> }

\* The second grid: an unnamed and a named one.
OtherGrids ==
    { MapGrid_random(3, 3, "checker").val,
      [MapGrid_random(4, 3, "rows").val EXCEPT !.name = Some(<<"m", "a", "p">>)] }

IdleFill == [active |-> FALSE, target |-> 0, fn |-> "none", arg |-> 0]
IdleCA == [alg |-> [kind |-> "none", on_min |-> 0, off_min |-> 0], passes |-> 0, track |-> FALSE, input |-> NoGrid]
IdleRes == [status |-> "none", grid |-> NoGrid, history |-> <<>>]
IdleGen == [fn |-> "none", width |-> 0, height |-> 0, tier |-> 0, xs |-> {}, ys |-> {}, ws |-> {}, hs |-> {}]
\* to_self: the last connect_rooms call had the same room on both ends.
IdleConn == [w |-> 0, phase |-> "none", sub |-> 0, left |-> 0, connections |-> 0, to_self |-> FALSE]
IdleQuery == [op |-> "none"]

GridIdle == grid = NoGrid /\ other = NoGrid /\ outcome = "none" /\ fill = IdleFill
QueryIdle == query = IdleQuery
CAIdle == ca = IdleCA /\ res = IdleRes
GenIdle ==
    /\ gen = IdleGen /\ targets = <<>> /\ pc = "idle" /\ rooms = <<>>
    /\ iters = 0 /\ conn = IdleConn /\ drawn = {}

InitGrid ==
    /\ grid = NoGrid
    /\ other \in OtherGrids
    /\ outcome = "none"
    /\ fill = IdleFill
    /\ CAIdle /\ GenIdle /\ QueryIdle

\* A constructor or fallible mutator returned r: a panic leaves the grid.
Returned(r) ==
    /\ grid' = IF r.ok THEN r.val ELSE grid
    /\ outcome' = IF r.ok THEN "ok" ELSE "panic"
    /\ UNCHANGED <<other, fill, caVars, queryVars, genVars>>

Mutated(g) ==
    /\ grid' = g
    /\ outcome' = "ok"
    /\ UNCHANGED <<other, fill, caVars, queryVars, genVars>>

\* One behaviour follows one grid: a constructor runs while there is none.
Ready == ~fill.active /\ grid = NoGrid
HasGrid == ~fill.active /\ grid # NoGrid

New == \E w \in ReqDims, h \in ReqDims : Ready /\ Returned(MapGrid_new(w, h))
Empty == \E w \in ReqDims, h \in ReqDims : Ready /\ Returned(MapGrid_empty(w, h))
Random ==
    \E w \in ReqDims, h \in ReqDims, pat \in RandomPatterns :
        Ready /\ Returned(MapGrid_random(w, h, pat))

\* The fill loops of random_fill_percent / random_fill_number.
FillTargetCeiling(w, h, pp) == (w * h * Max(0, Min(pp, 100)) + 99) \div 100
FillTargetPercent(w, h, pp) == (w * h * Max(0, Min(pp, 100))) \div 100
StartFill(w, h, target, fn, arg) ==
    LET e == MapGrid_empty(w, h)
    IN  /\ Ready
        /\ grid' = IF e.ok THEN e.val ELSE grid
        /\ fill' = IF e.ok THEN [active |-> TRUE, target |-> target, fn |-> fn, arg |-> arg] ELSE fill
        /\ outcome' = IF e.ok THEN "running" ELSE "panic"
        /\ UNCHANGED <<other, caVars, queryVars, genVars>>
RandomFillPercent ==
    \E d \in FillDims, pp \in PercentSamples : StartFill(d[1], d[2], FillTargetPercent(d[1], d[2], pp), "percent", pp)
RandomFillNumber ==
    \E d \in FillDims, n \in FillNumbers : StartFill(d[1], d[2], n, "number", n)
FillStep ==
    /\ fill.active
    /\ on_cells_count(grid) < fill.target
    /\ \E x \in 0..(grid.width - 1), y \in 0..(grid.height - 1) :
          grid' = set_cell(grid, x, y, Cell_on)
    /\ UNCHANGED <<other, outcome, fill, caVars, queryVars, genVars>>
\* A loop that also gives up once every cell is On.
FillReturnWhenFull ==
    /\ fill.active
    /\ \/ ~(on_cells_count(grid) < fill.target)
       \/ on_cells_count(grid) = grid.width * grid.height
    /\ fill' = IdleFill
    /\ outcome' = "ok"
    /\ UNCHANGED <<grid, other, caVars, queryVars, genVars>>
FillReturn ==
    /\ fill.active
    /\ ~(on_cells_count(grid) < fill.target)
    /\ fill' = IdleFill
    /\ outcome' = "ok"
    /\ UNCHANGED <<grid, other, caVars, queryVars, genVars>>

ParseString ==
    \E input \in ParseInputs :
        LET r == parse_string(input, "#", ".")
        IN  /\ Ready
            /\ grid' = IF r.ok THEN r.val ELSE grid
            /\ outcome' = IF r.ok THEN "ok" ELSE IF r.panic THEN "panic" ELSE "err"
            /\ UNCHANGED <<other, fill, caVars, queryVars, genVars>>

CreateCopy == Ready /\ Returned(create_copy(other))
SubGrid == \E sec \in SectionSamples : Ready /\ Returned(sub_grid(other, sec))
Integrate == \E o \in OffsetSamples : HasGrid /\ Returned(integrate(grid, other, o[1], o[2]))

SetCell == \E p \in PosSamples, c \in CellValues : HasGrid /\ Mutated(set_cell(grid, p[1], p[2], c))
ToggleCell == \E p \in PosSamples : HasGrid /\ Mutated(toggle_cell(grid, p[1], p[2]))
ResizeRowsWith == \E n \in ResizeSamples, c \in FillValues : HasGrid /\ Mutated(resize_rows_with(grid, n, c))
ResizeColsWith == \E n \in ResizeSamples, c \in FillValues : HasGrid /\ Mutated(resize_cols_with(grid, n, c))
Resize == \E w \in ResizeSamples, h \in ResizeSamples : HasGrid /\ Returned(resize(grid, w, h))
ResizeWith ==
    \E w \in ResizeSamples, h \in ResizeSamples, c \in FillValues : HasGrid /\ Mutated(resize_with(grid, w, h, c))
IntegrateInPlace ==
    \E o \in OffsetSamples : HasGrid /\ Returned(integrate_in_place(grid, other, o[1], o[2]))

NextGrid ==
    \/ New \/ Empty \/ Random
    \/ RandomFillPercent \/ RandomFillNumber \/ FillStep \/ FillReturn
    \/ ParseString \/ CreateCopy \/ SubGrid \/ Integrate
    \/ SetCell \/ ToggleCell
    \/ ResizeRowsWith \/ ResizeColsWith \/ Resize \/ ResizeWith
    \/ IntegrateInPlace

SpecGrid == InitGrid /\ [][NextGrid]_vars

\* SpecGrid under fair draws: every cell has a positive chance at each draw
\* of random_cell_pos, so a loop that still has an Off cell to find
\* eventually draws one (a draw of an On cell changes nothing), and a loop
\* whose condition is false is left.
SpecGridFair == SpecGrid /\ WF_vars(FillStep) /\ WF_vars(FillReturn)

\* C1: every grid a constructor returned or a mutator left behind is at
\* least 3 wide and 3 high, its cell storage has exactly `height` rows of
\* exactly `width` cells, and rows() / cols() report those numbers.
DimensionInvariant ==
    grid # NoGrid =>
        /\ grid.width >= 3 /\ grid.height >= 3
        /\ Len(grid.cells) = grid.height
        /\ \A j \in 1..Len(grid.cells) : Len(grid.cells[j]) = grid.width
        /\ rows(grid) = Len(grid.cells) /\ cols(grid) = grid.width

\* The case of C1: a grid that integrate or integrate_in_place made 5 high
\* (the other grid placed at offset (1, 2)) and at least 4 wide, and that a
\* later resize of its rows brought back to the minimum width.
DimensionWitness ==
    /\ grid # NoGrid /\ outcome = "ok"
    /\ grid.width = 3 /\ grid.height = 5
    /\ Len(grid.cells) = 5 /\ Len(grid.cells[5]) = 3

----------------------------------------------------------------------------
(* SpecCA: execute_on and execute_with_history applied to one input grid.  *)

MaxPasses == 2

\* Every 3x3 grid of On / Off cells.
BoolGrids3 ==
    { [name |-> None, width |-> 3, height |-> 3, cells |-> c] :
        c \in [1..3 -> [1..3 -> {Cell_on, Cell_off}]] }

\* Grids with Invalid cells, a named grid, and grids of 4x4 and 5x5.
OtherCAInputs ==
    { MapGrid_new(3, 3).val,
      set_cell_invalid(MapGrid_random(3, 3, "checker").val, 1, 1),
      set_cell_invalid(MapGrid_empty(4, 3).val, 3, 2),
      [MapGrid_random(4, 3, "rows").val EXCEPT !.name = Some(<<"m", "a", "p">>)],
      MapGrid_random(4, 4, "checker").val,
      MapGrid_random(5, 5, "checker").val,
      MapGrid_empty(5, 5).val }

CAInputs == BoolGrids3 \cup OtherCAInputs
CAAlgorithms == {Algorithm_default_first, Algorithm_first(2, 3), Algorithm_flex, Algorithm_flex2}

InitCA ==
    /\ ca \in {[IdleCA EXCEPT !.input = g] : g \in CAInputs}
    /\ res = IdleRes
    /\ GridIdle /\ GenIdle /\ QueryIdle

\* One behaviour makes one call.
ExecuteOn ==
    \E alg \in CAAlgorithms, p \in 0..MaxPasses :
        /\ res = IdleRes
        /\ ca' = [ca EXCEPT !.alg = alg, !.passes = p, !.track = FALSE]
        /\ res' = execute_on(ca.input, p, alg)
        /\ UNCHANGED <<gridVars, genVars, queryVars>>

ExecuteWithHistory ==
    \E alg \in CAAlgorithms, p \in 0..MaxPasses :
        /\ res = IdleRes
        /\ ca' = [ca EXCEPT !.alg = alg, !.passes = p, !.track = TRUE]
        /\ res' = execute_with_history(ca.input, p, alg)
        /\ UNCHANGED <<gridVars, genVars, queryVars>>

NextCA == ExecuteOn \/ ExecuteWithHistory

SpecCA == InitCA /\ [][NextCA]_vars

\* The number of On cells among the 8 toroidal neighbours of (x, y), by
\* modular arithmetic on the cell storage.
ToroidalCount(g, x, y) ==
    Cardinality({d \in {-1, 0, 1} \X {-1, 0, 1} :
        /\ d # <<0, 0>>
        /\ g.cells[((y + d[2]) % g.height) + 1][((x + d[1]) % g.width) + 1] = Cell_on})

CellAt(g, x, y) == g.cells[y + 1][x + 1]
Coords(g) == (0..(g.width - 1)) \X (0..(g.height - 1))
SeqReverse(q) == [k \in 1..Len(q) |-> q[Len(q) + 1 - k]]

\* The rule of ca.alg applied to cell p of generation prev; the radius-2
\* count is the one active_neighbors_n gives on prev.
RuleOn(prev, p) ==
    Predicate(ca.alg, ToroidalCount(prev, p[1], p[2]),
              active_neighbors_n(prev, p[1], p[2], 2).val,
              CellAt(prev, p[1], p[2]) = Cell_on)

InvalidCellsSkipped ==
    (res.status # "none" /\ \E p \in Coords(ca.input) : CellAt(ca.input, p[1], p[2]) = Cell_invalid) =>
        /\ res.status = "ok"
        /\ \A p \in Coords(ca.input) :
              CellAt(ca.input, p[1], p[2]) = Cell_invalid => CellAt(res.grid, p[1], p[2]) = Cell_invalid

\* C7: the threshold rule.  After one pass of First(on_min, off_min) a cell
\* that was On is On iff its toroidal count was >= on_min, a cell that was
\* Off is On iff the count was >= off_min; the default thresholds are 4, 5.
ThresholdRule ==
    /\ Algorithm_default_first.on_min = 4 /\ Algorithm_default_first.off_min = 5
    /\ (res.status = "ok" /\ ca.alg.kind = "First" /\ ca.passes = 1) =>
          \A p \in Coords(ca.input) :
              LET was == CellAt(ca.input, p[1], p[2])
                  n == ToroidalCount(ca.input, p[1], p[2])
              IN  /\ was = Cell_on => (CellAt(res.grid, p[1], p[2]) = Cell_on <=> n >= ca.alg.on_min)
                  /\ was = Cell_off => (CellAt(res.grid, p[1], p[2]) = Cell_on <=> n >= ca.alg.off_min)

\* The case of C7: the default rule, one pass, a lone On cell in the middle
\* of an otherwise Off 3x3 grid: every cell is Off afterwards.
LoneCell == set_cell(MapGrid_empty(3, 3).val, 1, 1, Cell_on)
ThresholdWitness ==
    /\ res.status = "ok" /\ ca.alg = Algorithm_default_first /\ ca.passes = 1
    /\ ca.input = LoneCell
    /\ res.grid.cells = MapGrid_empty(3, 3).val.cells

\* C8: the history.  execute_with_history returns passes + 1 grids, entry 0
\* with the cells of the input, the last entry with the cells of the final
\* grid, which has the cells of the grid execute_on returns.
HistoryComplete ==
    (res.status = "ok" /\ ca.track) =>
        /\ Len(res.history) = ca.passes + 1
        /\ res.history[1].cells = ca.input.cells
        /\ res.history[Len(res.history)].cells = res.grid.cells
        /\ res.grid.cells = execute_on(ca.input, ca.passes, ca.alg).grid.cells

----------------------------------------------------------------------------
(* SpecGen and SpecCeil: one call of basic, tiered or tiered_heuristic.     *)
(* A call is a run: the function, the map size, and the values the draws    *)
(* of positions and sizes are taken from (those inside the drawn range).    *)

MaxRejects == 2

Run(fn, width, height, xs, ys, ws, hs) ==
    [fn |-> fn, width |-> width, height |-> height, tier |-> 0,
     xs |-> xs, ys |-> ys, ws |-> ws, hs |-> hs]

GenRuns ==
    { Run("tiered", 22, 10, {0, 3, 8, 16}, {0}, {5, 7}, {5}),
      Run("tiered_heuristic", 17, 24, {0, 12}, {0, 19}, {5}, {5}),
      Run("tiered_heuristic", 10, 10, {0}, {0}, {5}, {5}),
      Run("basic", 24, 16, {0, 23}, {0}, {3, 20}, {3}) }

CeilRuns ==
    { Run("tiered", 5, 5, {0}, {0}, {5, 8}, {5}),
      Run("tiered_heuristic", 15, 27, {0, 10}, {0}, {5, 7}, {5}) }

Draw(samples, r) == {v \in samples : InRng(v, r)}

\* The centres a connection pass can join (the tiered runs below stay in
\* their loops), and the curves between them, computed once.
CentrePoints ==
    UNION { {center(Room_new(x, y, w, h, "")) : x \in run.xs, y \in run.ys, w \in run.ws, h \in run.hs} :
              run \in {r \in GenRuns : r.fn = "tiered_heuristic"} }
CurveTable ==
    LET f == [d \in CentrePoints \X CentrePoints \X BOOLEAN |-> get_curve_between(d[1], d[2], d[3])]
    IN  IF f = f THEN f ELSE f

PathKinds == {"curve", "hv", "vh"}

\* The cells one connect_rooms call writes: a curve on fastrand::u8(0..3) == 2,
\* otherwise the horizontal run at c1.y and the vertical run at c2.x.
PathCells(fst, snd, kind, coin) ==
    LET c1 == FirstCentre(fst, snd)
        c2 == center(snd)
    IN  IF kind = "curve" THEN CurveTable[<<c1, c2, coin>>]
        ELSE HorizontalCells(c1[1], c2[1], c1[2]) \cup VerticalCells(c1[2], c2[2], c2[1])

connect_rooms(g, fst, snd, kind, coin) ==
    LET c1 == FirstCentre(fst, snd)
        c2 == center(snd)
    IN  CASE kind = "curve" -> curved_path(g, CurveTable[<<c1, c2, coin>>])
          [] kind = "hv" -> vertical_path(horizontal_path(g, c1[1], c2[1], c1[2]), c1[2], c2[2], c2[1])
          [] OTHER -> horizontal_path(vertical_path(g, c1[2], c2[2], c2[1]), c1[1], c2[1], c1[2])

InGrid(g, cells) == {c \in cells : c[1] < g.width /\ c[2] < g.height}

InitGen ==
    /\ gen = IdleGen /\ targets = <<>> /\ pc = "idle" /\ rooms = <<>>
    /\ iters = 0 /\ conn = IdleConn /\ drawn = {}
    /\ GridIdle /\ CAIdle /\ QueryIdle

\* The range computations at the head of tiered / tiered_heuristic panic on
\* an underflow; the target draw panics on an empty count range.
StartPanics(run) ==
    \/ \E k \in 1..Len(Tiers(run.fn)) :
          PosUnderflow(Tiers(run.fn)[k], run.width) \/ PosUnderflow(Tiers(run.fn)[k], run.height)
    \/ /\ run.fn = "tiered_heuristic"
       /\ \E k \in 1..Len(Tiers(run.fn)) : RngEmpty(CountRange(Tiers(run.fn)[k], run.width, run.height))

TargetChoices(run) ==
    {tg \in [1..Len(Tiers(run.fn)) -> 0..10] :
        \A k \in 1..Len(Tiers(run.fn)) :
            tg[k] \in TargetDraws(TargetRange(run.fn, Tiers(run.fn)[k], run.width, run.height))}

\* After the last tier loop: the empty map, the rooms filled in, the shuffle
\* of connect_all_rooms; with fewer than two rooms there is no window.
FinishTiers(width, height, rs) ==
    /\ grid' = FillRooms(rs, MapGrid_empty(width, height).val)
    /\ rooms' = rs
    /\ pc' = IF Len(rs) < 2 THEN "done" ELSE "connect"
    /\ conn' = IF Len(rs) < 2 THEN IdleConn
               ELSE [w |-> 1, phase |-> "pair", sub |-> 0, left |-> 0, connections |-> 0, to_self |-> FALSE]
    /\ iters' = 0
    /\ UNCHANGED drawn

\* The call up to the first loop iteration.  No loop runs on a target of 0.
StartFrom(runs) ==
    \E run \in runs :
        /\ pc = "idle"
        /\ UNCHANGED <<other, outcome, fill, caVars, queryVars>>
        /\ IF run.fn = "basic"
           THEN /\ gen' = run /\ pc' = "basic"
                /\ UNCHANGED <<grid, targets, rooms, iters, conn, drawn>>
           ELSE IF StartPanics(run)
           THEN /\ gen' = run /\ pc' = "panic"
                /\ UNCHANGED <<grid, targets, rooms, iters, conn, drawn>>
           ELSE \E tg \in TargetChoices(run) :
                    /\ targets' = tg
                    /\ gen' = [run EXCEPT !.tier = Advance(1, 0, tg)]
                    /\ IF Advance(1, 0, tg) > Len(tg)
                       THEN FinishTiers(run.width, run.height, <<>>)
                       ELSE /\ pc' = "loop"
                            /\ UNCHANGED <<grid, rooms, iters, conn, drawn>>

CurrentTier == Tiers(gen.fn)[gen.tier]
Rejected(x, y, w, h) ==
    \/ OutOfBounds(CurrentTier, x, y, w, h, gen.width, gen.height)
    \/ TooSmall(x, y, w, h)
    \/ Collides(gen.fn, Room_new(x, y, w, h, CurrentTier), rooms)
\* The attempts of the running tier loop that were rejected.
Rejections == iters - (Len(rooms) - Cum(targets, gen.tier - 1))

\* One iteration of a tier loop, and what follows it up to the next
\* iteration: a rejected candidate only counts; an accepted one is pushed,
\* then the assert on iters, then the loop conditions (iters = 0 between
\* loops), and after the last loop the fill and the shuffle.
AttemptWith(x, y, w, h, kind) ==
    LET rooms1 == Append(rooms, Room_new(x, y, w, h, CurrentTier))
        t1 == Advance(gen.tier, Len(rooms1), targets)
    IN  /\ UNCHANGED <<other, outcome, fill, caVars, queryVars, targets>>
        /\ IF Rejected(x, y, w, h)
           THEN /\ iters' = iters + 1
                /\ UNCHANGED <<gen, pc, rooms, grid, conn, drawn>>
           ELSE IF iters + 1 > IterCeiling
           THEN /\ pc' = "panic" /\ rooms' = rooms1 /\ iters' = iters + 1
                /\ UNCHANGED <<gen, grid, conn, drawn>>
           ELSE IF t1 = gen.tier
           THEN /\ rooms' = rooms1 /\ iters' = iters + 1
                /\ UNCHANGED <<gen, pc, grid, conn, drawn>>
           ELSE IF t1 <= Len(targets)
           THEN /\ rooms' = rooms1 /\ iters' = 0 /\ gen' = [gen EXCEPT !.tier = t1]
                /\ UNCHANGED <<pc, grid, conn, drawn>>
           ELSE /\ FinishTiers(gen.width, gen.height, Shuffle(rooms1, kind))
                /\ UNCHANGED gen

Attempt ==
    /\ pc = "loop"
    /\ \E x \in Draw(gen.xs, PosRange(CurrentTier, gen.width)),
          y \in Draw(gen.ys, PosRange(CurrentTier, gen.height)),
          w \in Draw(gen.ws, SizeRange(CurrentTier, gen.width)),
          h \in Draw(gen.hs, SizeRange(CurrentTier, gen.height)),
          kind \in ShuffleKinds :
            /\ Rejected(x, y, w, h) => Rejections < MaxRejects
            /\ AttemptWith(x, y, w, h, kind)

AttemptUnbounded ==
    /\ pc = "loop"
    /\ iters <= IterCeiling
    /\ \E x \in Draw(gen.xs, PosRange(CurrentTier, gen.width)),
          y \in Draw(gen.ys, PosRange(CurrentTier, gen.height)),
          w \in Draw(gen.ws, SizeRange(CurrentTier, gen.width)),
          h \in Draw(gen.hs, SizeRange(CurrentTier, gen.height)),
          kind \in ShuffleKinds :
            AttemptWith(x, y, w, h, kind)

\* One iteration of the loop of basic: the candidate is pulled back inside
\* the map, kept unless it intersects a kept room; after the last iteration
\* the kept rooms are outlined on an empty map.
BasicIter ==
    /\ pc = "basic"
    /\ iters < max_rooms
    /\ \E x \in Draw(gen.xs, Rng(0, gen.width - 1)), y \in Draw(gen.ys, Rng(0, gen.height - 1)),
          w \in Draw(gen.ws, Rng(3, 20)), h \in Draw(gen.hs, Rng(3, 13)) :
          LET x1 == IF x + w >= gen.width THEN gen.width - w - 1 ELSE x
              y1 == IF y + h >= gen.height THEN gen.height - h - 1 ELSE y
              room == Room_new(x1, y1, w, h, "Basic")
              collides == \E k \in 1..Len(rooms) : intersects(room, rooms[k])
              rooms1 == IF collides THEN rooms ELSE Append(rooms, room)
          IN  IF x1 < 0 \/ y1 < 0
              THEN /\ pc' = "panic"          \* x -= 1 below 0
                   /\ UNCHANGED <<grid, rooms, iters>>
              ELSE /\ rooms' = rooms1
                   /\ iters' = iters + 1
                   /\ pc' = IF iters + 1 = max_rooms THEN "done" ELSE "basic"
                   /\ grid' = IF iters + 1 = max_rooms
                              THEN OutlineRooms(rooms1, MapGrid_empty(gen.width, gen.height).val)
                              ELSE grid
    /\ UNCHANGED <<other, outcome, fill, caVars, queryVars, gen, targets, conn, drawn>>

\* connect_all_rooms, one connect_rooms call at a time.  The head of a
\* window: on fastrand::u8(0..5) > 1 the two rooms are connected; then the
\* loop count of the first `sub` is drawn.
ConnectPair ==
    /\ pc = "connect" /\ conn.phase = "pair"
    /\ \E doit \in BOOLEAN, kind \in PathKinds, coin \in BOOLEAN, count \in 1..3 :
          /\ ~doit => (kind = "hv" /\ coin)            \* no path is drawn
          /\ kind # "curve" => coin                    \* the coin of the curve
          /\ LET r1 == rooms[conn.w]
                 r2 == rooms[conn.w + 1]
             IN
              /\ grid' = IF doit THEN connect_rooms(grid, r1, r2, kind, coin) ELSE grid
              /\ drawn' = IF doit THEN drawn \cup InGrid(grid, PathCells(r1, r2, kind, coin)) ELSE drawn
              /\ conn' = [w |-> conn.w, phase |-> "sub", sub |-> 0, left |-> count,
                          connections |-> IF doit THEN 1 ELSE 0,
                          to_self |-> FALSE]
    /\ UNCHANGED <<other, outcome, fill, caVars, queryVars, gen, targets, pc, rooms, iters>>

\* One iteration of `for i in 0..=fastrand::u8(0..3)` for a `sub` of the
\* window: it is connected to a room drawn from all rooms.  After the last
\* iteration sub_conn is at least connections + 1, so the `sub_conn < 1`
\* branch adds nothing; then the next sub, the next window, or the end.
ConnectSub ==
    /\ pc = "connect" /\ conn.phase = "sub"
    /\ \E ridx \in 1..Len(rooms), kind \in PathKinds, coin \in BOOLEAN, count \in 1..3 :
          /\ kind # "curve" => coin                    \* the coin of the curve
          /\ (conn.left > 1 \/ conn.sub = 1) => count = 1   \* no loop count is drawn
          /\ LET sub == rooms[conn.w + conn.sub]
                 g1 == connect_rooms(grid, sub, rooms[ridx], kind, coin)
                 last == conn.left = 1
                 fallback == last /\ conn.connections + 1 < 1
             IN
              /\ grid' = IF fallback THEN connect_rooms(g1, sub, rooms[ridx], kind, coin) ELSE g1
              /\ drawn' = drawn \cup InGrid(grid, PathCells(sub, rooms[ridx], kind, coin))
              /\ conn' = IF ~last THEN [conn EXCEPT !.left = conn.left - 1, !.to_self = (ridx = conn.w + conn.sub)]
                         ELSE IF conn.sub = 0
                         THEN [conn EXCEPT !.sub = 1, !.left = count, !.to_self = (ridx = conn.w + conn.sub)]
                         ELSE IF conn.w + 1 < Len(rooms)
                         THEN [w |-> conn.w + 1, phase |-> "pair", sub |-> 0, left |-> 0, connections |-> 0,
                               to_self |-> (ridx = conn.w + conn.sub)]
                         ELSE [IdleConn EXCEPT !.to_self = (ridx = conn.w + conn.sub)]
              /\ pc' = IF last /\ conn.sub = 1 /\ ~(conn.w + 1 < Len(rooms)) THEN "done" ELSE "connect"
    /\ UNCHANGED <<other, outcome, fill, caVars, queryVars, gen, targets, rooms, iters>>

StartGen == StartFrom(GenRuns)
StartCeil == StartFrom(CeilRuns)

NextGen == StartGen \/ Attempt \/ BasicIter \/ ConnectPair \/ ConnectSub
SpecGen == InitGen /\ [][NextGen]_vars

NextCeil == StartCeil \/ AttemptUnbounded
SpecCeil == InitGen /\ [][NextCeil]_vars

----------------------------------------------------------------------------
(* Properties of the generators.                                            *)

\* C2: the retry loop of a tier is bounded.  A tier loop that has made more
\* than 10,000 attempts is not running any more: the call has aborted.
CeilingHolds == pc = "loop" => iters <= IterCeiling

\* The cells of a room grown by n on every side (coordinates may be negative).
InflatedCells(room, n) ==
    ((room.min[1] - n)..(room.max[1] + n - 1)) \X ((room.min[2] - n)..(room.max[2] + n - 1))

\* C3: no two accepted rooms of a run of basic, tiered or tiered_heuristic
\* share a cell, and in tiered no accepted room shares a cell with another
\* one grown by 3 cells on every side.
RoomsApart ==
    \A i, j \in 1..Len(rooms) :
        i # j =>
            /\ RoomCells(rooms[i]) \cap RoomCells(rooms[j]) = {}
            /\ gen.fn = "tiered" => InflatedCells(rooms[i], RoomBuffer) \cap RoomCells(rooms[j]) = {}

\* The case of C3: tiered accepted two rooms exactly 3 columns apart after
\* it rejected a candidate.
RoomsApartWitness ==
    /\ gen.fn = "tiered" /\ Len(rooms) >= 2 /\ iters > Len(rooms)
    /\ \E i, j \in 1..Len(rooms) : rooms[j].min[1] - rooms[i].max[1] = RoomBuffer

\* C4 as amended: every room tiered or tiered_heuristic accepted lies inside
\* the map (0 <= min, max.x <= width, max.y <= height, max exclusive), and a
\* Huge or Big room also stays clear of the right and bottom edges
\* (max.x <= width - 1, max.y <= height - 1).
RoomsInsideMap ==
    gen.fn \in {"tiered", "tiered_heuristic"} =>
        \A k \in 1..Len(rooms) :
            /\ rooms[k].min[1] >= 0 /\ rooms[k].min[2] >= 0
            /\ rooms[k].max[1] <= gen.width /\ rooms[k].max[2] <= gen.height
            /\ rooms[k].tier \in {"Huge", "Big"} =>
                  (rooms[k].max[1] <= gen.width - 1 /\ rooms[k].max[2] <= gen.height - 1)

\* The case of C4: tiered_heuristic accepted a room in the top left corner
\* of the map and a Medium or Small room that ends on the right edge.
RoomsInsideWitness ==
    /\ gen.fn = "tiered_heuristic"
    /\ \E k \in 1..Len(rooms) : rooms[k].min = <<0, 0>>
    /\ \E k \in 1..Len(rooms) :
          rooms[k].tier \in {"Medium", "Small"} /\ rooms[k].max[1] = gen.width

\* C4 as stated: every accepted room touches none of the four edges.
RoomsClearOfEdges ==
    gen.fn \in {"tiered", "tiered_heuristic"} =>
        \A k \in 1..Len(rooms) :
            /\ rooms[k].min[1] >= 1 /\ rooms[k].min[2] >= 1
            /\ rooms[k].max[1] <= gen.width - 1 /\ rooms[k].max[2] <= gen.height - 1

----------------------------------------------------------------------------
(* SpecQuery: one call of a function of MapGrid on a given grid.  `grid`    *)
(* is the receiver, `other` the second grid of integrate, `query` the call  *)
(* with its arguments and what it returned.                                 *)

MaxRadius == 2

\* An Off grid with the given cells On.
GridWithOn(width, height, onset) == SetStates(MapGrid_empty(width, height).val, onset, TRUE)

\* The receivers: the 5x5 grid of tests::n_neighbors, a 5x6 and a 7x7 grid,
\* small grids, a grid with Invalid cells and a named grid.
NNeighborsGrid == GridWithOn(5, 5, {<<0, 0>>, <<4, 0>>, <<2, 1>>, <<2, 2>>, <<2, 3>>, <<0, 4>>, <<4, 4>>})
QueryGrids ==
    { NNeighborsGrid,
      MapGrid_random(5, 6, "checker").val,
      GridWithOn(7, 7, {<<0, 0>>, <<3, 3>>, <<4, 3>>, <<6, 6>>, <<1, 5>>}),
      MapGrid_random(3, 3, "checker").val,
      GridWithOn(4, 3, {<<0, 0>>, <<3, 0>>, <<1, 1>>, <<3, 2>>}),
      set_cell_invalid(set_cell_invalid(MapGrid_random(3, 4, "rows").val, 1, 1), 2, 3),
      [MapGrid_random(4, 4, "checker").val EXCEPT !.name = Some(<<"m", "a", "p">>)] }

\* The second grids and offsets of integrate: unnamed, named, one with an
\* Invalid cell; offsets inside the receiver, across its edge and beyond it.
QueryOthers ==
    OtherGrids \cup {set_cell_invalid(MapGrid_random(3, 3, "rows").val, 1, 1)}
QueryOffsets == {<<0, 0>>, <<1, 2>>, <<3, 1>>, <<5, 6>>}

InitQuery ==
    /\ grid \in QueryGrids
    /\ other \in QueryOthers
    /\ outcome = "none" /\ fill = IdleFill
    /\ CAIdle /\ GenIdle /\ QueryIdle

\* One behaviour makes one call.
Asked(q) ==
    /\ query = IdleQuery
    /\ query' = q
    /\ UNCHANGED <<gridVars, caVars, genVars>>

ActiveNeighborsN ==
    \E x \in 0..(grid.width - 1), y \in 0..(grid.height - 1), n \in 0..MaxRadius :
        Asked([op |-> "active_neighbors_n", x |-> x, y |-> y, n |-> n,
               ok |-> active_neighbors_n(grid, x, y, n).ok,
               val |-> active_neighbors_n(grid, x, y, n).val])

NeighborPositions ==
    \E x \in 0..(grid.width - 1), y \in 0..(grid.height - 1) :
        Asked([op |-> "neighbor_positions", x |-> x, y |-> y,
               positions |-> neighbor_positions(grid, x, y)])

NeighborPositionsWrapping ==
    \E x \in 0..(grid.width - 1), y \in 0..(grid.height - 1) :
        Asked([op |-> "neighbor_positions_wrapping", x |-> x, y |-> y,
               positions |-> neighbor_positions_wrapping(grid, x, y)])

NeighborsWithState ==
    \E x \in 0..(grid.width - 1), y \in 0..(grid.height - 1), state \in BOOLEAN, wrap \in BOOLEAN :
        Asked([op |-> "neighbors_with_state", x |-> x, y |-> y, state |-> state, wrap |-> wrap,
               positions |-> neighbors_with_state(grid, x, y, state, wrap)])

ActiveNeighborCount ==
    \E x \in 0..(grid.width - 1), y \in 0..(grid.height - 1), wrap \in BOOLEAN :
        Asked([op |-> "active_neighbor_count", x |-> x, y |-> y, wrap |-> wrap,
               val |-> active_neighbor_count(grid, x, y, wrap)])

\* Reads and writes at positions inside the grid and up to two cells beyond
\* its last column and row.  A write leaves the receiver in query.after.
ProbeXs == 0..(grid.width + 1)
ProbeYs == 0..(grid.height + 1)

CellRead ==
    \E x \in ProbeXs, y \in ProbeYs :
        Asked([op |-> "cell", x |-> x, y |-> y, ret |-> cell(grid, x, y)])
CellMut ==
    \E x \in ProbeXs, y \in ProbeYs :
        Asked([op |-> "cell_mut", x |-> x, y |-> y, ret |-> cell_mut(grid, x, y)])
SetCellAt ==
    \E x \in ProbeXs, y \in ProbeYs, c \in {Cell_on, Cell_off, Cell_invalid} :
        Asked([op |-> "set_cell", x |-> x, y |-> y, after |-> set_cell(grid, x, y, c)])
SetCellStateAt ==
    \E x \in ProbeXs, y \in ProbeYs, state \in BOOLEAN :
        Asked([op |-> "set_cell_state", x |-> x, y |-> y, after |-> set_cell_state(grid, x, y, state)])
SetCellInvalidAt ==
    \E x \in ProbeXs, y \in ProbeYs :
        Asked([op |-> "set_cell_invalid", x |-> x, y |-> y, after |-> set_cell_invalid(grid, x, y)])
ToggleCellAt ==
    \E x \in ProbeXs, y \in ProbeYs :
        Asked([op |-> "toggle_cell", x |-> x, y |-> y, after |-> toggle_cell(grid, x, y)])

IntegrateAt ==
    \E o \in QueryOffsets :
        Asked([op |-> "integrate", ox |-> o[1], oy |-> o[2],
               ok |-> integrate(grid, other, o[1], o[2]).ok,
               after |-> integrate(grid, other, o[1], o[2]).val])
IntegrateInPlaceAt ==
    \E o \in QueryOffsets :
        Asked([op |-> "integrate_in_place", ox |-> o[1], oy |-> o[2],
               ok |-> integrate_in_place(grid, other, o[1], o[2]).ok,
               after |-> integrate_in_place(grid, other, o[1], o[2]).val])

\* The on / off characters of a rendering.
CharPairs == {<<"#", ".">>, <<"1", "0">>, <<"x", "S">>, <<Block, ".">>}

\* to_string_with(on, off, '\n') of the receiver, given to parse_string.
ToStringThenParse ==
    \E c \in CharPairs :
        LET text == to_string_with(grid, c[1], c[2], NL)
            r == parse_string(text, c[1], c[2])
        IN  Asked([ok |-> r.ok, val |-> r.val, on |-> c[1], off |-> c[2], errors |-> r.errors,
                   panic |-> r.panic, op |-> "to_string_then_parse", text |-> text])

\* Texts given to parse_string with on = '#' and off = '.'.
QueryTexts ==
    { <<>>,
      <<"#", "?", NL, ".", ".">>,
      <<"#", "?", "#", NL, ".", "!", ".">>,
      <<"#", "S", "#", NL, ".", "G", ".", NL, "#", "?", "#">>,
      <<"#", "?", "#", NL, ".", "!", ".", NL, "#", "S", "?">>,
      <<"S", ".", ".", NL, "#", ".", ".", NL, ".", ".", ".", NL, ".", ".", ".">>,
      <<"#", ".", "S", NL, ".", "G", ".", NL, ".", ".", ".">>,
      <<"m", "a", "p">>,
      <<"m", "a", "p", NL, "#", "?", NL, ".", ".">>,
      <<"4", " ", "3", NL, "#", "#", "#", NL, ".", ".", ".", ".", NL, "#", "?">>,
      <<"3", " ", "3", NL, "#", ".", ".", "?", NL, ".", ".", ".", NL, ".", "G", ".">>,
      <<"#", "#", "#", NL, "#", NL, ".", ".", ".", ".">>,
      <<"3", " ", "4", NL, "#", "#", "#", "#", NL, ".", ".", NL, "#", "S", "#">>,
      <<"5", " ", "3", NL, "#", ".", "#", NL, ".", ".", ".", NL, "#", ".", "#", NL, "#", "#", "#">> }

\* MapGrid::parse_string(input, '#', '.')
ParseStringAt ==
    \E input \in QueryTexts :
        LET r == parse_string(input, "#", ".")
        IN  Asked([ok |-> r.ok, val |-> r.val, on |-> "#", off |-> ".", errors |-> r.errors,
                   panic |-> r.panic, input |-> input, op |-> "parse_string"])

\* reverse of the receiver, and reverse of what it returned.
ReverseTwice ==
    LET once == reverse(grid)
        twice == reverse(once.val)
    IN  Asked([op |-> "reverse", ok |-> once.ok /\ twice.ok, once |-> once.val, twice |-> twice.val])

\* reverse_in_place on the receiver, and a second time on the result.
ReverseInPlaceTwice ==
    Asked([op |-> "reverse_in_place", ok |-> TRUE, once |-> reverse_in_place(grid),
           twice |-> reverse_in_place(reverse_in_place(grid))])

\* GridIterator::new / IntoIterator for &MapGrid: the iterator starts with
\* curr = (0, 0) and has yielded nothing.
GridIteratorNew ==
    Asked([op |-> "into_iter", curr |-> <<0, 0>>, items |-> <<>>, done |-> FALSE])

\* GridIterator::next: curr is advanced first, then the cell at curr is
\* yielded; None once the row index has run past the last row.
GridIteratorNext ==
    /\ query.op = "into_iter"
    /\ ~query.done
    /\ LET x1 == query.curr[1] + 1
           wrapped == x1 >= grid.width
           x == IF wrapped THEN 0 ELSE x1
           y == IF wrapped THEN query.curr[2] + 1 ELSE query.curr[2]
       IN  IF (wrapped /\ y >= grid.height) \/ cell(grid, x, y) = None
           THEN query' = [query EXCEPT !.curr = <<x, y>>, !.done = TRUE]
           ELSE query' = [query EXCEPT !.curr = <<x, y>>,
                                       !.items = Append(@, <<<<x, y>>, Cell_is_on(cell(grid, x, y)[1])>>)]
    /\ UNCHANGED <<gridVars, caVars, genVars>>

\* Sizes and cells handed to resize_with.
ResizeTo == {2, 3, 5}

\* MapGrid::resize_with((w, h), c) on the receiver.
ResizeWithAt ==
    QueryIdle /\ \E w \in ResizeTo, h \in ResizeTo, c \in {Cell_on, Cell_invalid} :
        Asked([c |-> c, w |-> w, h |-> h, op |-> "resize_with",
               after |-> resize_with(grid, w, h, c)])

\* MapGrid::random_cell_pos: (fastrand::usize(0..width), fastrand::usize(0..height)).
random_cell_pos(g) == (0..(g.width - 1)) \X (0..(g.height - 1))

\* MapGrid::random_cell: the drawn pair is bound as (row, col) and the cell
\* is read at (col, row); the cell at (0, 0) when there is none.
RandomCell ==
    QueryIdle /\ \E drawn_pos \in random_cell_pos(grid) :
        LET row == drawn_pos[1]
            col == drawn_pos[2]
            found == cell(grid, col, row)
        IN  Asked([ok |-> TRUE, op |-> "random_cell",
                   ret |-> IF found # None THEN found ELSE Some(grid.cells[1][1]),
                   pos |-> <<col, row>>])

\* MapGrid::random_cell_mut: the same read through cell_mut, then expect().
RandomCellMut ==
    QueryIdle /\ \E drawn_pos \in random_cell_pos(grid) :
        LET row == drawn_pos[1]
            col == drawn_pos[2]
            found == cell_mut(grid, col, row)
        IN  Asked([ok |-> found # None, op |-> "random_cell_mut", ret |-> found,
                   pos |-> <<col, row>>])

NextQuery ==
    \/ ActiveNeighborsN
    \/ RandomCell
    \/ RandomCellMut
    \/ ResizeWithAt
    \/ GridIteratorNew
    \/ GridIteratorNext
    \/ ReverseTwice
    \/ ReverseInPlaceTwice
    \/ ParseStringAt
    \/ ToStringThenParse
    \/ IntegrateAt \/ IntegrateInPlaceAt
    \/ CellRead \/ CellMut \/ SetCellAt \/ SetCellStateAt \/ SetCellInvalidAt \/ ToggleCellAt
    \/ NeighborPositions \/ NeighborPositionsWrapping \/ NeighborsWithState \/ ActiveNeighborCount
SpecQuery == InitQuery /\ [][NextQuery]_vars

\* The On cells of the (2n+1) x (2n+1) square centred on (x, y) without the
\* centre: the square taken on the torus, and the square cut at the edges.
WrappedSquareCount(g, x, y, n) ==
    Cardinality({d \in (-n..n) \X (-n..n) :
        /\ d # <<0, 0>>
        /\ g.cells[((y + d[2]) % g.height) + 1][((x + d[1]) % g.width) + 1] = Cell_on})
ClippedSquareCount(g, x, y, n) ==
    Cardinality({d \in (-n..n) \X (-n..n) :
        /\ d # <<0, 0>>
        /\ x + d[1] \in 0..(g.width - 1) /\ y + d[2] \in 0..(g.height - 1)
        /\ g.cells[y + d[2] + 1][x + d[1] + 1] = Cell_on})

\* C11: for every cell (x, y) and radius n >= 2 with 2n+1 <= width, height,
\* active_neighbors_n returns the number of On cells of the square of side
\* 2n+1 centred on (x, y), the centre not counted (on either reading of the
\* square at the edges of the grid).
SquareCounted ==
    (/\ query.op = "active_neighbors_n" /\ query.n >= 2
     /\ 2 * query.n + 1 <= grid.width /\ 2 * query.n + 1 <= grid.height) =>
        /\ query.ok
        /\ query.val \in {WrappedSquareCount(grid, query.x, query.y, query.n),
                          ClippedSquareCount(grid, query.x, query.y, query.n)}

\* The neighbours of (x, y) on the torus, and those inside the grid.
TorusNeighbours(g, x, y) ==
    {<<(x + d[1]) % g.width, (y + d[2]) % g.height>> : d \in ({-1, 0, 1} \X {-1, 0, 1}) \ {<<0, 0>>}}
InsideNeighbours(g, x, y) ==
    {p \in Coords(g) : p # <<x, y>> /\ p[1] - x \in {-1, 0, 1} /\ p[2] - y \in {-1, 0, 1}}
SeqSet(q) == {q[k] : k \in 1..Len(q)}
NoRepeats(q) == Cardinality(SeqSet(q)) = Len(q)
OnEdgeX(g, x) == x = 0 \/ x = g.width - 1
OnEdgeY(g, y) == y = 0 \/ y = g.height - 1

\* C12: at every position of a grid, neighbor_positions_wrapping returns
\* the 8 distinct neighbours on the torus and never the position itself;
\* neighbor_positions returns the positions of the grid at distance 1 (3 at
\* a corner, 5 on an edge, 8 inside); neighbors_with_state returns those of
\* them whose cell has the requested state; active_neighbor_count is the
\* number of them that are On.
NeighboursExact ==
    /\ query.op = "neighbor_positions_wrapping" =>
          /\ Len(query.positions) = 8 /\ NoRepeats(query.positions)
          /\ SeqSet(query.positions) = TorusNeighbours(grid, query.x, query.y)
          /\ SeqSet(query.positions) \subseteq Coords(grid)
          /\ <<query.x, query.y>> \notin SeqSet(query.positions)
    /\ query.op = "neighbor_positions" =>
          /\ NoRepeats(query.positions)
          /\ SeqSet(query.positions) = InsideNeighbours(grid, query.x, query.y)
          /\ Len(query.positions) =
                IF OnEdgeX(grid, query.x) /\ OnEdgeY(grid, query.y) THEN 3
                ELSE IF OnEdgeX(grid, query.x) \/ OnEdgeY(grid, query.y) THEN 5
                ELSE 8
    /\ query.op = "neighbors_with_state" =>
          /\ NoRepeats(query.positions)
          /\ SeqSet(query.positions) =
                {p \in (IF query.wrap THEN TorusNeighbours(grid, query.x, query.y)
                        ELSE InsideNeighbours(grid, query.x, query.y)) :
                    CellAt(grid, p[1], p[2]) = (IF query.state THEN Cell_on ELSE Cell_off)}
    /\ query.op = "active_neighbor_count" =>
          query.val = Cardinality(
                {p \in (IF query.wrap THEN TorusNeighbours(grid, query.x, query.y)
                        ELSE InsideNeighbours(grid, query.x, query.y)) :
                    CellAt(grid, p[1], p[2]) = Cell_on})

\* The case of C12: the On neighbours of corner (0, 0) of the 5x5 grid with
\* On corners, wrapping: the three other corners.
NeighboursWitness ==
    /\ grid = NNeighborsGrid
    /\ query.op = "neighbors_with_state" /\ query.x = 0 /\ query.y = 0
    /\ query.wrap /\ query.state
    /\ SeqSet(query.positions) = {<<4, 0>>, <<0, 4>>, <<4, 4>>}

CellWrites == {"set_cell", "set_cell_state", "set_cell_invalid", "toggle_cell"}

\* C13: at a position with x >= width or y >= height, cell and cell_mut
\* return no value, and set_cell, set_cell_state, set_cell_invalid and
\* toggle_cell return with the grid as it was: its cells, width, height
\* and name.
OutOfBoundsInert ==
    (query.op \in CellWrites \cup {"cell", "cell_mut"}
        /\ (query.x >= grid.width \/ query.y >= grid.height)) =>
        /\ query.op \in {"cell", "cell_mut"} => query.ret = None
        /\ query.op \in CellWrites =>
              /\ query.after.cells = grid.cells /\ query.after.width = grid.width
              /\ query.after.height = grid.height /\ query.after.name = grid.name

\* The case of C13: toggle_cell one column beyond the first row of the 5x5
\* grid whose corners are On (the wrapped and the clamped cell are On).
OutOfBoundsWitness ==
    /\ grid = NNeighborsGrid
    /\ query.op = "toggle_cell" /\ query.x = 5 /\ query.y = 0
    /\ query.after = grid

\* Position p of the result is covered by `other` placed at the offset.
Covered(p) ==
    /\ p[1] - query.ox \in 0..(other.width - 1)
    /\ p[2] - query.oy \in 0..(other.height - 1)

\* C14: integrate and integrate_in_place give a grid of width
\* max(first.width, offset.x + other.width) and height
\* max(first.height, offset.y + other.height) that holds other's cell
\* (i, j), Invalid or not, at (offset.x + i, offset.y + j), and first's
\* cell at every position of first that other does not cover.
IntegrationExact ==
    query.op \in {"integrate", "integrate_in_place"} =>
        /\ query.ok
        /\ query.after.width = Max(grid.width, query.ox + other.width)
        /\ query.after.height = Max(grid.height, query.oy + other.height)
        /\ Len(query.after.cells) = query.after.height
        /\ \A j \in 1..Len(query.after.cells) : Len(query.after.cells[j]) = query.after.width
        /\ \A p \in Coords(query.after) :
              /\ Covered(p) =>
                    CellAt(query.after, p[1], p[2]) = CellAt(other, p[1] - query.ox, p[2] - query.oy)
              /\ (~Covered(p) /\ p \in Coords(grid)) =>
                    CellAt(query.after, p[1], p[2]) = CellAt(grid, p[1], p[2])

\* The case of C14: integrate_in_place widened the receiver, and an Invalid
\* cell of `other` replaced an On cell of the receiver.
IntegrationWitness ==
    /\ query.op = "integrate_in_place" /\ query.ok
    /\ query.after.width > grid.width
    /\ \E p \in Coords(grid) :
          /\ Covered(p)
          /\ CellAt(grid, p[1], p[2]) = Cell_on
          /\ CellAt(other, p[1] - query.ox, p[2] - query.oy) = Cell_invalid
          /\ CellAt(query.after, p[1], p[2]) = Cell_invalid

NoInvalidCells(g) == \A p \in Coords(g) : CellAt(g, p[1], p[2]) # Cell_invalid

\* C15: the text to_string_with(on, off, newline) gives for a grid without
\* Invalid cells, named or not, parses with parse_string(text, on, off) to a
\* grid equal to the original under MapGrid equality.
RoundTripEqual ==
    (query.op = "to_string_then_parse" /\ NoInvalidCells(grid)) =>
        /\ query.ok
        /\ MapGrid_eq(query.val, grid)

\* The lines of a text that are left once parse_string has taken the name
\* line and the size line off the front: the cell rows.
CellRows(input, on, off) ==
    LET l0 == SplitOn(input, NL)
        l1 == IF l0 # <<>> /\ StartsWithName(l0[1], on, off) THEN Tail(l0) ELSE l0
    IN  IF l1 # <<>> /\ StartsWithDims(l1[1], on, off) THEN Tail(l1) ELSE l1

\* The size given on the size line, <<0, 0>> when there is none.
GivenSize(input, on, off) ==
    LET l0 == SplitOn(input, NL)
        l1 == IF l0 # <<>> /\ StartsWithName(l0[1], on, off) THEN Tail(l0) ELSE l0
        hs == IF l1 # <<>> /\ StartsWithDims(l1[1], on, off)
                THEN split_ascii_whitespace(l1[1]) ELSE <<>>
        num(h) == IF parse_usize(h) = None THEN 0 ELSE parse_usize(h)[1]
    IN  IF Len(hs) = 2 THEN <<num(hs[1]), num(hs[2])>> ELSE <<0, 0>>

\* The characters of the cell rows that are none of on, off, S, G, each with
\* its column and row.
BadChars(crows, on, off) ==
    { <<"Invalid character", crows[y + 1][x + 1], x, y>> :
        <<x, y>> \in { p \in (0..8) \X (0..8) :
                        /\ p[2] < Len(crows)
                        /\ p[1] < Len(crows[p[2] + 1])
                        /\ crows[p[2] + 1][p[1] + 1] \notin {on, off, "S", "G"} } }

TextWidth(input, on, off) ==
    IF GivenSize(input, on, off)[1] # 0 THEN GivenSize(input, on, off)[1]
    ELSE LET crows == CellRows(input, on, off)
         IN  IF crows = <<>> THEN 0
             ELSE CHOOSE n \in 0..32 : /\ \E j \in 1..Len(crows) : StrLen(crows[j]) = n
                                       /\ \A j \in 1..Len(crows) : StrLen(crows[j]) <= n
TextHeight(input, on, off) ==
    IF GivenSize(input, on, off)[2] # 0 THEN GivenSize(input, on, off)[2]
    ELSE Len(CellRows(input, on, off))

WidthError == <<"Width must be at least 3">>
HeightError == <<"Height must be at least 3">>
SizeErrors(w, h) ==
    (IF w < 3 THEN <<WidthError>> ELSE <<>>) \o (IF h < 3 THEN <<HeightError>> ELSE <<>>)

ParseFailed == query.op = "parse_string" /\ ~query.ok /\ ~query.panic

GivenRows(input, on, off) ==
    IF input # <<>> /\ input[1] \in {on, off, "S", "G"} THEN SplitOn(input, NL) ELSE <<>>

\* C17: every S or G of the cell rows given to parse_string (on and off being
\* neither S nor G) is an Off cell at its (column, row) in the parsed grid.
StartGoalOff ==
    (query.op = "parse_string" /\ query.ok /\ {query.on, query.off} \cap {"S", "G"} = {}) =>
        \A p \in Coords(query.val) :
            LET crows == GivenRows(query.input, query.on, query.off)
            IN  (/\ p[2] < Len(crows)
                 /\ p[1] < Len(crows[p[2] + 1])
                 /\ crows[p[2] + 1][p[1] + 1] \in {"S", "G"})
                => CellAt(query.val, p[1], p[2]) = Cell_off

\* The number of On cells asked of the running fill: the whole part of
\* width * height * p with p (in hundredths) brought into [0, 1], or the
\* number given.
AskedOn(f, g) ==
    IF f.fn = "number" THEN f.arg
    ELSE LET p == IF f.arg < 0 THEN 0 ELSE IF f.arg > 100 THEN 100 ELSE f.arg
         IN  CHOOSE k \in 0..(g.width * g.height) :
                k * 100 <= g.width * g.height * p /\ g.width * g.height * p < (k + 1) * 100
OnOrOff(g) == \A p \in Coords(g) : CellAt(g, p[1], p[2]) \in {Cell_on, Cell_off}

\* C19: the grid random_fill_percent returns has exactly floor(width * height
\* * p) On cells, p clamped to [0, 1], the one random_fill_number returns for
\* n <= width * height has exactly n, every other cell is Off, and while the
\* loop runs the number of On cells never exceeds the target.
FillExact ==
    /\ [](fill.active => (on_cells_count(grid) <= fill.target /\ OnOrOff(grid)))
    /\ [][(fill.active /\ ~fill'.active /\ (fill.fn = "number" => fill.arg <= grid.width * grid.height)) =>
            /\ on_cells_count(grid') = AskedOn(fill, grid')
            /\ OnOrOff(grid')]_vars

\* A fill loop that has reached a target of more than one cell.
FillWitness ==
    /\ fill.active /\ fill.target > 1
    /\ on_cells_count(grid) = fill.target


\* C20: reversing twice, with reverse or reverse_in_place, gives back the
\* state of every cell -- On, Off and Invalid alike -- and one reversal turns
\* every On cell Off, every Off cell On, leaves every Invalid cell Invalid and
\* keeps width and height.
ReverseInvolution ==
    query.op \in {"reverse", "reverse_in_place"} =>
        /\ query.ok
        /\ query.once.width = grid.width /\ query.once.height = grid.height
        /\ query.twice.width = grid.width /\ query.twice.height = grid.height
        /\ \A p \in Coords(grid) :
              /\ CellAt(query.twice, p[1], p[2]) = CellAt(grid, p[1], p[2])
              /\ CellAt(grid, p[1], p[2]) = Cell_on => CellAt(query.once, p[1], p[2]) = Cell_off
              /\ CellAt(grid, p[1], p[2]) = Cell_off => CellAt(query.once, p[1], p[2]) = Cell_on
              /\ CellAt(grid, p[1], p[2]) = Cell_invalid => CellAt(query.once, p[1], p[2]) = Cell_invalid

\* A reversal of a grid that has On, Off and Invalid cells.
ReverseWitness ==
    /\ query.op = "reverse"
    /\ \A c \in {Cell_on, Cell_off, Cell_invalid} :
          \E p \in Coords(grid) : CellAt(grid, p[1], p[2]) = c

\* The tier whose loop accepts the k-th room: the first tier whose running
\* sum of targets reaches k.
TierOfIndex(k) ==
    Tiers(gen.fn)[CHOOSE t \in 1..Len(targets) :
                    /\ k <= Cum(targets, t)
                    /\ \A u \in 1..(t - 1) : k > Cum(targets, u)]
RoomsOfTier(tier) == {k \in 1..Len(rooms) : rooms[k].tier = tier}
Tiered == gen.fn \in {"tiered", "tiered_heuristic"}

\* C24: the tiers are placed in the order Huge, Big, Medium, Small (Big,
\* Medium, Small in tiered): the k-th accepted room belongs to the tier whose
\* turn it is by the targets, so no tier starts before the one before it has
\* its target; an accepted room is never removed or changed; when placement
\* is over every tier has exactly its target and every cell of every room is
\* On on the grid.
TiersInOrder ==
    /\ []((Tiered /\ pc = "loop") =>
            /\ Len(rooms) < Cum(targets, Len(targets))
            /\ \A k \in 1..Len(rooms) : rooms[k].tier = TierOfIndex(k))
    /\ []((Tiered /\ pc \in {"connect", "done"}) =>
            /\ Len(rooms) = Cum(targets, Len(targets))
            /\ \A t \in 1..Len(targets) :
                  Cardinality(RoomsOfTier(Tiers(gen.fn)[t])) = targets[t]
            /\ \A k \in 1..Len(rooms) :
                  \A c \in RoomCells(rooms[k]) : CellAt(grid, c[1], c[2]) = Cell_on)
    /\ [][Tiered =>
            /\ Len(rooms') >= Len(rooms)
            /\ SeqSet(rooms) \subseteq SeqSet(rooms')
            /\ (pc' = "loop" => SubSeq(rooms', 1, Len(rooms)) = rooms)]_vars

\* Placement is over with rooms of two tiers, three or more in all.
TiersWitness ==
    /\ Tiered /\ pc = "done" /\ Len(rooms) >= 3
    /\ \E j, k \in 1..Len(rooms) : rooms[j].tier # rooms[k].tier

\* C25: a connection made from a room of a window to a drawn room goes to
\* another room than itself, and the loop of extra connections of a room
\* runs at most twice.
ConnectionsToOthers ==
    (Tiered /\ pc \in {"connect", "done"}) =>
        /\ ~conn.to_self
        /\ conn.left <= 2

----------------------------------------------------------------------------
(* GridClassification (src/gen/room_gen.rs): the class of a map by its rows,
   its columns and its number of cells, and the range of each class. *)

\* The classes from TooSmall to Oversized, in order.
Classes == <<"TooSmall", "Tiny", "Small", "Medium", "Large", "Huge", "Oversized">>

\* std::ops::Range: start..end, end excluded.
Range(start, end) == [start |-> start, end |-> end]
RangeContains(r, v) == r.start <= v /\ v < r.end

\* GridClassification::classify_rows
classify_rows(n) ==
    CASE 3 <= n /\ n <= 4 -> "TooSmall"
      [] 5 <= n /\ n <= 6 -> "Tiny"
      [] 7 <= n /\ n <= 13 -> "Small"
      [] 14 <= n /\ n <= 22 -> "Medium"
      [] 23 <= n /\ n <= 32 -> "Large"
      [] 33 <= n /\ n <= 39 -> "Huge"
      [] 40 <= n -> "Oversized"
      [] OTHER -> "Unknown"

row_range(k) ==
    CASE k = "TooSmall" -> Range(3, 5)
      [] k = "Tiny" -> Range(5, 7)
      [] k = "Small" -> Range(7, 14)
      [] k = "Medium" -> Range(14, 23)
      [] k = "Large" -> Range(23, 33)
      [] k = "Huge" -> Range(33, 40)
      [] k = "Oversized" -> Range(40, 200)
      [] OTHER -> Range(0, 0)

row_max(k) ==
    CASE k = "TooSmall" -> 5
      [] k = "Tiny" -> 7
      [] k = "Small" -> 14
      [] k = "Medium" -> 23
      [] k = "Large" -> 33
      [] k = "Huge" -> 40
      [] k = "Oversized" -> 200
      [] OTHER -> 0

row_min(k) ==
    CASE k = "TooSmall" -> 3
      [] k = "Tiny" -> 5
      [] k = "Small" -> 7
      [] k = "Medium" -> 14
      [] k = "Large" -> 23
      [] k = "Huge" -> 33
      [] k = "Oversized" -> 40
      [] OTHER -> 0

\* GridClassification::classify_cols
classify_cols(n) ==
    CASE 3 <= n /\ n <= 8 -> "TooSmall"
      [] 9 <= n /\ n <= 20 -> "Tiny"
      [] 21 <= n /\ n <= 57 -> "Small"
      [] 58 <= n /\ n <= 99 -> "Medium"
      [] 100 <= n /\ n <= 134 -> "Large"
      [] 135 <= n /\ n <= 165 -> "Huge"
      [] 166 <= n -> "Oversized"
      [] OTHER -> "Unknown"

col_range(k) ==
    CASE k = "TooSmall" -> Range(3, 9)
      [] k = "Tiny" -> Range(9, 21)
      [] k = "Small" -> Range(21, 58)
      [] k = "Medium" -> Range(58, 100)
      [] k = "Large" -> Range(100, 135)
      [] k = "Huge" -> Range(135, 166)
      [] k = "Oversized" -> Range(166, 400)
      [] OTHER -> Range(0, 0)

col_max(k) ==
    CASE k = "TooSmall" -> 9
      [] k = "Tiny" -> 21
      [] k = "Small" -> 58
      [] k = "Medium" -> 100
      [] k = "Large" -> 135
      [] k = "Huge" -> 166
      [] k = "Oversized" -> 400
      [] OTHER -> 0

col_min(k) ==
    CASE k = "TooSmall" -> 3
      [] k = "Tiny" -> 9
      [] k = "Small" -> 21
      [] k = "Medium" -> 58
      [] k = "Large" -> 100
      [] k = "Huge" -> 135
      [] k = "Oversized" -> 166
      [] OTHER -> 0

\* GridClassification::classify_cells: every count outside 3..=6105 is Oversized.
classify_cells(n) ==
    CASE 3 <= n /\ n <= 44 -> "TooSmall"
      [] 45 <= n /\ n <= 129 -> "Tiny"
      [] 130 <= n /\ n <= 799 -> "Small"
      [] 800 <= n /\ n <= 2399 -> "Medium"
      [] 2400 <= n /\ n <= 4299 -> "Large"
      [] 4300 <= n /\ n <= 6105 -> "Huge"
      [] OTHER -> "Oversized"

cell_range(k) ==
    CASE k = "TooSmall" -> Range(3, 45)
      [] k = "Tiny" -> Range(45, 130)
      [] k = "Small" -> Range(130, 800)
      [] k = "Medium" -> Range(800, 2400)
      [] k = "Large" -> Range(2400, 4300)
      [] k = "Huge" -> Range(4300, 6106)
      [] k = "Oversized" -> Range(6106, 150000)
      [] OTHER -> Range(0, 0)

cell_min(k) ==
    CASE k = "TooSmall" -> 3
      [] k = "Tiny" -> 45
      [] k = "Small" -> 130
      [] k = "Medium" -> 800
      [] k = "Large" -> 2400
      [] k = "Huge" -> 4300
      [] k = "Oversized" -> 6106
      [] OTHER -> 0

cell_max_of_rows(k) == row_max(k)
cell_max(k) ==
    CASE k = "TooSmall" -> 45
      [] k = "Tiny" -> 130
      [] k = "Small" -> 800
      [] k = "Medium" -> 2400
      [] k = "Large" -> 4300
      [] k = "Huge" -> 6106
      [] k = "Oversized" -> 150000
      [] OTHER -> 0

\* One call of a function of GridClassification.
InitClass ==
    /\ grid = NoGrid /\ other = NoGrid /\ outcome = "none" /\ fill = IdleFill
    /\ CAIdle /\ GenIdle /\ QueryIdle

Classified(axis, n, class) == Asked([n |-> n, op |-> "classify", axis |-> axis, class |-> class])
ClassifyRows == QueryIdle /\ \E n \in 0..row_max("Oversized") : Classified("rows", n, classify_rows(n))
ClassifyCols == QueryIdle /\ \E n \in 0..col_max("Oversized") : Classified("cols", n, classify_cols(n))
ClassifyCells == QueryIdle /\ \E n \in 0..cell_max("Oversized") : Classified("cells", n, classify_cells(n))

\* range, min and max of a class.
Ranged(axis, k, r, lo, hi) ==
    Asked([min |-> lo, max |-> hi, range |-> r, op |-> "range", axis |-> axis, class |-> k])
RowRange == QueryIdle /\ \E k \in SeqSet(Classes) : Ranged("rows", k, row_range(k), row_min(k), row_max(k))
ColRange == QueryIdle /\ \E k \in SeqSet(Classes) : Ranged("cols", k, col_range(k), col_min(k), col_max(k))
CellRange == QueryIdle /\ \E k \in SeqSet(Classes) : Ranged("cells", k, cell_range(k), cell_min(k), cell_max(k))

\* Rooms and buffers handed to Room::intersects_with_buffer.
RoomSamples ==
    {Room_new(x, y, w, w, "Basic") : x \in {0, 2, 4, 9}, y \in {0, 3}, w \in {2, 3}}

\* a.intersects_with_buffer(b, buffer), and the same call with the rooms
\* exchanged.
IntersectsWithBuffer ==
    QueryIdle /\ \E a \in RoomSamples, b \in RoomSamples, buffer \in 0..RoomBuffer :
        Asked([a |-> a, b |-> b, buffer |-> buffer, op |-> "intersects_with_buffer",
               ret |-> intersects_with_buffer(a, b, buffer),
               exchanged |-> intersects_with_buffer(b, a, buffer)])

\* Map widths and heights handed to tiered_heuristic.
HeuristicDims == 3..45
HeuristicTiers == Tiers("tiered_heuristic")

\* tiered_heuristic up to its first placement loop.  underflow: a
\* `map_dim - size_start` of get_room_sizes is negative (a panic where
\* overflow is checked, a wrapped value elsewhere); empty: a count range
\* (max / 2)..max is empty, and the draw of the tier's target panics.
TieredHeuristicStart ==
    QueryIdle /\ \E width \in HeuristicDims, height \in HeuristicDims :
        Asked([width |-> width, height |-> height, op |-> "tiered_heuristic",
               underflow |-> \E k \in 1..Len(HeuristicTiers) :
                                \/ PosUnderflow(HeuristicTiers[k], width)
                                \/ PosUnderflow(HeuristicTiers[k], height),
               empty |-> \E k \in 1..Len(HeuristicTiers) :
                            RngEmpty(CountRange(HeuristicTiers[k], width, height))])

NextClass ==
    \/ ClassifyRows
    \/ IntersectsWithBuffer
    \/ TieredHeuristicStart
    \/ ClassifyCols
    \/ ClassifyCells
    \/ RowRange
    \/ ColRange
    \/ CellRange

SpecClass == InitClass /\ [][NextClass]_vars

AxisRange(axis, k) ==
    IF axis = "rows" THEN row_range(k) ELSE IF axis = "cols" THEN col_range(k) ELSE cell_range(k)

\* The column table: 3-8 TooSmall, 9-20 Tiny, 21-57 Small, 58-99 Medium,
\* 100-134 Large, 135-165 Huge, 166 and more Oversized.
ColumnTable ==
    << <<3, 8, "TooSmall">>, <<9, 20, "Tiny">>, <<21, 57, "Small">>, <<58, 99, "Medium">>,
       <<100, 134, "Large">>, <<135, 165, "Huge">> >>
ColumnClass(n) ==
    IF n >= 166 THEN "Oversized"
    ELSE LET k == CHOOSE k \in 1..Len(ColumnTable) : ColumnTable[k][1] <= n /\ n <= ColumnTable[k][2]
         IN  ColumnTable[k][3]

RowMajor(g) ==
    [k \in 1..(g.width * g.height) |->
        <<<<(k - 1) % g.width, (k - 1) \div g.width>>,
          Cell_is_on(CellAt(g, (k - 1) % g.width, (k - 1) \div g.width))>>]

\* C21: an iteration over a grid that has ended has yielded every cell once,
\* in row-major order from (0, 0), as (position, is_on): width * height
\* items.
IterationComplete ==
    (query.op = "into_iter" /\ query.done) => query.items = RowMajor(grid)

\* C22: resize_with((w, h), cell) leaves the grid that resize_rows_with(w,
\* cell) followed by resize_cols_with(h, cell) leaves: width max(w, 3),
\* height max(h, 3), the cells that were there kept and the new ones equal
\* to `cell`.
ResizeWithAsDocumented ==
    query.op = "resize_with" =>
        /\ query.after = resize_cols_with(resize_rows_with(grid, query.w, query.c), query.h, query.c)
        /\ query.after.width = Max(query.w, 3)
        /\ query.after.height = Max(query.h, 3)

\* C23: whatever the shape of the grid and the draw, random_cell and
\* random_cell_mut return the cell at the position they read, which is in
\* bounds, and random_cell_mut does not fail.
RandomCellInBounds ==
    query.op \in {"random_cell", "random_cell_mut"} =>
        /\ query.ok
        /\ query.pos[1] < grid.width /\ query.pos[2] < grid.height
        /\ query.ret = Some(CellAt(grid, query.pos[1], query.pos[2]))

\* Room a grown by `buffer` cells on all four sides, left and top stopping
\* at 0.
GrownRoom(a, buffer) ==
    [min |-> <<Max(a.min[1] - buffer, 0), Max(a.min[2] - buffer, 0)>>,
     max |-> <<a.max[1] + buffer, a.max[2] + buffer>>]

\* C26: a.intersects_with_buffer(b, buffer) holds exactly when a grown by
\* the buffer on all four sides (left and top clamped at 0) intersects b,
\* and it gives the same answer with a and b exchanged.
BufferedIntersection ==
    query.op = "intersects_with_buffer" =>
        /\ query.ret = check_intersects(GrownRoom(query.a, query.buffer), query.b)
        /\ query.ret = query.exchanged

\* Position p lies inside `first` (the receiver).
InFirst(p) == p[1] < grid.width /\ p[2] < grid.height

\* C27: integrate(first, other, offset) and first after
\* integrate_in_place(other, offset) have the same width, the same height
\* and the same cell at every position, and the positions that neither
\* grid covers are Invalid in both (union / union_in_place are the
\* offset (0, 0)).
IntegrateAgrees ==
    query.op = "integrate" =>
        LET in_place == integrate_in_place(grid, other, query.ox, query.oy)
        IN  /\ query.ok = in_place.ok
            /\ query.after.width = in_place.val.width
            /\ query.after.height = in_place.val.height
            /\ query.after.cells = in_place.val.cells
            /\ \A p \in Coords(query.after) :
                  (~Covered(p) /\ ~InFirst(p)) =>
                      /\ CellAt(query.after, p[1], p[2]) = Cell_invalid
                      /\ CellAt(in_place.val, p[1], p[2]) = Cell_invalid

\* The case of C27: an offset that leaves positions covered by neither
\* grid, and first's and other's cells both present in the result.
IntegrateAgreesWitness ==
    /\ query.op = "integrate" /\ query.ok
    /\ \E p \in Coords(query.after) : ~Covered(p) /\ ~InFirst(p)
    /\ \E p \in Coords(query.after) : Covered(p) /\ CellAt(query.after, p[1], p[2]) = Cell_on
    /\ \E p \in Coords(query.after) : InFirst(p) /\ CellAt(query.after, p[1], p[2]) = Cell_on

\* A random_fill_number call is running and asks for more On cells than
\* the grid has cells / for at most that many.
FillNumberRunning == fill.active /\ fill.fn = "number"
FillTooMany == FillNumberRunning /\ fill.arg > grid.width * grid.height

\* C28: random_fill_number(size, n) with n > width * height never leaves
\* its loop (the On count stays at most width * height < n), and with
\* n <= width * height it returns under fair draws.
FillTerminates ==
    /\ [](FillTooMany => on_cells_count(grid) < fill.target)
    /\ [][FillTooMany => (fill' = fill /\ outcome' = outcome)]_vars
    /\ ((FillNumberRunning /\ ~FillTooMany) ~> ~fill.active)

\* The case of C28: a call for 10 cells of a 3x3 grid that has turned every
\* cell On and is still in its loop.
FillForeverWitness ==
    /\ FillTooMany
    /\ on_cells_count(grid) = grid.width * grid.height

\* The sum lo + (lo + 1) + ... + hi and the truncated average of lo..hi, as
\* the loops of tiered_heuristic add them up.
RECURSIVE SumRange(_, _)
SumRange(lo, hi) == IF hi < lo THEN 0 ELSE hi + SumRange(lo, hi - 1)
AverageRoomArea(tier, width, height) ==
    (SumRange(SizeStart(tier, width), SizeEnd(tier, width)) \div (SizeEnd(tier, width) - SizeStart(tier, width) + 1))
  * (SumRange(SizeStart(tier, height), SizeEnd(tier, height)) \div (SizeEnd(tier, height) - SizeStart(tier, height) + 1))

\* round(0.15 * cells / area) >= 1, i.e. 0.15 * cells / area >= 0.5.
MaxAtLeastOne(tier, width, height) ==
    3 * width * height >= 10 * AverageRoomArea(tier, width, height)

\* The sizes for which C29 lets tiered_heuristic reach its loops.
LoopsReachable(width, height) ==
    /\ width >= 8 /\ height >= 8
    /\ \A k \in 1..Len(HeuristicTiers) :
          /\ width >= SizeStart(HeuristicTiers[k], width)
          /\ height >= SizeStart(HeuristicTiers[k], height)
          /\ MaxAtLeastOne(HeuristicTiers[k], width, height)

\* A tiered_heuristic call did not abort before its loops.
LoopsReached == query.op = "tiered_heuristic" /\ ~query.underflow /\ ~query.empty

\* C29: tiered_heuristic gets to its placement loops only for map sizes
\* whose width and height are at least every tier's smallest room size (8
\* for Huge) and for which every tier's max = round(0.15 * map cells /
\* average room area) is at least 1; for every other size it aborts first,
\* whether a negative map_dim - size_start panics or wraps.
HeuristicPreconditions ==
    query.op = "tiered_heuristic" =>
        /\ LoopsReached => LoopsReachable(query.width, query.height)
        /\ ~LoopsReachable(query.width, query.height) => query.empty
        /\ query.underflow => query.empty

\* The case of C29: a map of at least 8x8 whose Huge tier has max = 0, and
\* so an empty count range, while no subtraction underflows.
HeuristicWitness ==
    /\ query.op = "tiered_heuristic"
    /\ query.width >= 8 /\ query.height >= 8
    /\ ~query.underflow /\ query.empty

\* A parse_string call on a text whose cell rows hold only on, off, S and G
\* and that resolves to a size of at least 3x3.
ParsedCleanText ==
    /\ query.op = "parse_string" /\ query.input # <<>>
    /\ BadChars(CellRows(query.input, query.on, query.off), query.on, query.off) = {}
    /\ TextWidth(query.input, query.on, query.off) >= 3
    /\ TextHeight(query.input, query.on, query.off) >= 3

\* C30: rows of unequal length and a size line that disagrees with the
\* rows are no error.  The result is Ok with no error entry, its width is
\* the declared width or else the longest row, its height the declared
\* height or else the number of rows, a cell holds the character written
\* at its position, a position no character is written at stays Invalid,
\* and the characters beyond the width or the height appear nowhere.
ParseLenient ==
    ParsedCleanText =>
        LET crows == CellRows(query.input, query.on, query.off)
        IN  /\ query.ok /\ ~query.panic /\ query.errors = <<>>
            /\ query.val.width = TextWidth(query.input, query.on, query.off)
            /\ query.val.height = TextHeight(query.input, query.on, query.off)
            /\ Len(query.val.cells) = query.val.height
            /\ \A j \in 1..Len(query.val.cells) : Len(query.val.cells[j]) = query.val.width
            /\ \A p \in Coords(query.val) :
                  CellAt(query.val, p[1], p[2]) =
                      IF p[2] < Len(crows) /\ p[1] < Len(crows[p[2] + 1])
                      THEN (IF crows[p[2] + 1][p[1] + 1] = query.on THEN Cell_on ELSE Cell_off)
                      ELSE Cell_invalid

\* The case of C30: a size line that disagrees with the rows, a row longer
\* than the declared width, and an Invalid cell in the grid returned.
ParseLenientWitness ==
    /\ ParsedCleanText /\ query.ok
    /\ GivenSize(query.input, query.on, query.off) # <<0, 0>>
    /\ \E j \in 1..Len(CellRows(query.input, query.on, query.off)) :
          Len(CellRows(query.input, query.on, query.off)[j]) > query.val.width
    /\ \E p \in Coords(query.val) : CellAt(query.val, p[1], p[2]) = Cell_invalid

====
